---------------------------- MODULE Spec2Model ----------------------------
(***************************************************************************)
(* A model of the metadata-extraction core of the AI image gallery:        *)
(*   - the PNG chunk extractor   (src/js/parsers/pngChunkExtractor.js)      *)
(*   - the prompt/text cleaner   (utils.js, src/unnamed/part_011)           *)
(*   - the tool-specific parsers (src/js/parsers/chatgptParser.js,          *)
(*                                src/js/parsers/comfyuiParser.js)          *)
(*   - the thumbnail crop        (src/js/thumbnailGenerator.js)             *)
(* Each component has its own specification (SpecPng, SpecClean,           *)
(* SpecParsers, SpecThumb); the variables of the other components stay at  *)
(* their idle values.                                                      *)
(***************************************************************************)
EXTENDS Integers, Sequences, FiniteSets, TLC

VARIABLES
    \* --- pngChunkExtractor.js: one call of extractPNGTextChunks ---------
    pngSrc,     \* ghost: how the input buffer was put together
    buf,        \* uint8Array: the bytes, buf[i+1] is uint8Array[i]
    offset,     \* the cursor of the chunk walk
    chunks,     \* the mapping under construction: keyword -> text
    visited,    \* ghost: the cursors at which an iteration has run
    pngPc,      \* "start" | "walk" | "done"
    \* --- utils.js: cleanPromptText applied once and twice ----------------
    cleanIn, cleanOnce, cleanTwice, cleanPc,
    \* --- chatgptParser.js / comfyuiParser.js: one call of a parser -------
    parserIn,   \* the chunk mapping handed to the parser
    parserOut,  \* what the call produced
    parserPc,   \* "idle" | "chatgpt" | "comfyui"
    \* --- thumbnailGenerator.js: generateThumbnailWithPosition ------------
    thumbIn, crop, thumbPc,
    \* --- modal.js / metadata.js: the edit modal and the mining functions ---
    item, promptField, modelField, modalPc,
    \* --- utils.js cleanModelName -------------------------------------------
    nameIn, nameOut, namePc,
    \* --- thumbnailGenerator.js maintenance and database.js rows ------------
    rows, maint, maintPc,
    \* --- a parser called twice ---------------------------------------------
    twiceIn, clock, firstOut, secondOut, twicePc,
    \* --- server.js: DELETE /delete/:relativePath ---------------------------
    disk, delReq, delRes, serverPc,
    \* --- modal.js: deleteCurrentImage and the modal it runs in -------------
    mediaTable, serverDir, currentImageId, currentImageData, deletion,
    \* --- minigallery.js and the modal.js that uses it ----------------------
    miniImageId, miniImageData, miniThumbnails, shownId, formTitle, saved,
    \* --- script.js: the search box -----------------------------------------
    searchBox, searchTimer, searchesInFlight, galleryShown, searchLog,
    \* --- database.js: init and the migration of the legacy store -----------
    dexieItems, localStorageDb, sqliteDb, isInitialized, initCount,
    \* --- script.js, database.js (API client) and the server: export and import of a backup ---
    sourceMedia, backupFile, importIndex, targetMedia, importResults, backupPc

pngVars    == <<pngSrc, buf, offset, chunks, visited, pngPc>>
cleanVars  == <<cleanIn, cleanOnce, cleanTwice, cleanPc>>
parserVars == <<parserIn, parserOut, parserPc>>
thumbVars  == <<thumbIn, crop, thumbPc>>
modalVars  == <<item, promptField, modelField, modalPc>>
nameVars   == <<nameIn, nameOut, namePc>>
storeVars  == <<rows, maint, maintPc>>
twiceVars  == <<twiceIn, clock, firstOut, secondOut, twicePc>>
serverVars == <<disk, delReq, delRes, serverPc>>
deleteVars == <<mediaTable, serverDir, currentImageId, currentImageData, deletion>>
miniVars   == <<miniImageId, miniImageData, miniThumbnails, shownId, formTitle, saved>>
searchVars == <<searchBox, searchTimer, searchesInFlight, galleryShown, searchLog>>
migrateVars == <<dexieItems, localStorageDb, sqliteDb, isInitialized, initCount>>
backupVars == <<sourceMedia, backupFile, importIndex, targetMedia, importResults, backupPc>>
vars       == <<pngVars, cleanVars, parserVars, thumbVars, modalVars, nameVars, storeVars, twiceVars, serverVars, deleteVars, miniVars, searchVars, migrateVars, backupVars>>

(***************************************************************************)
(* General helpers                                                         *)
(***************************************************************************)
Max(a, b) == IF a > b THEN a ELSE b
Min(a, b) == IF a < b THEN a ELSE b

RECURSIVE Concat(_)
\* The concatenation of a sequence of sequences.
Concat(ss) == IF ss = << >> THEN << >> ELSE Head(ss) \o Concat(Tail(ss))

\* All sequences over S of length 0..n.
SeqUpTo(S, n) == UNION {[1..k -> S] : k \in 0..n}

(***************************************************************************)
(* PNG chunk extractor                                                     *)
(***************************************************************************)
\* Bound of the generated buffers.
MaxChunks == 3      \* chunks after the signature

\* JavaScript's undefined, as read from a typed array out of its range.
Undefined == -1

\* uint8Array[i]
At(b, i) == IF i >= 0 /\ i < Len(b) THEN b[i + 1] ELSE Undefined

\* ToInt32 / ToUint16 of a byte read: undefined converts to 0.
ToInt(x) == IF x = Undefined THEN 0 ELSE x

\* uint8Array.slice(start, end): negative indexes count from the end, both
\* are clamped to the buffer, an empty range gives an empty array.
Slice(b, start, end) ==
    LET len == Len(b)
        k   == IF start < 0 THEN Max(len + start, 0) ELSE Min(start, len)
        f   == IF end < 0 THEN Max(len + end, 0) ELSE Min(end, len)
    IN  IF f > k THEN SubSeq(b, k + 1, f) ELSE << >>

\* chunkData.indexOf(0): the first index holding 0, or -1.
IndexOfNull(d) ==
    IF \E i \in 1..Len(d) : d[i] = 0
    THEN (CHOOSE i \in 1..Len(d) : d[i] = 0 /\ \A j \in 1..(i - 1) : d[j] # 0) - 1
    ELSE -1

\* new TextDecoder().decode(bytes), for bytes that are ASCII or that cannot
\* start or continue a UTF-8 sequence where they stand (0x80, 0x89, 0xE8,
\* 0xF4, 0xFF followed by ASCII): each such byte decodes to U+FFFD.
Decode(d) == [i \in 1..Len(d) |-> IF d[i] < 128 THEN d[i] ELSE 65533]

\* Lines 14-15: the signature test looks at the first four bytes only.
SignatureRejected(b) ==
    At(b, 0) # 137 \/ At(b, 1) # 80 \/ At(b, 2) # 78 \/ At(b, 3) # 71

\* Line 21: while (offset < uint8Array.length - 8)
LoopGuard(b, off) == off < Len(b) - 8

\* Lines 23-24: (b0 << 24) | (b1 << 16) | (b2 << 8) | b3, a signed 32-bit
\* value: a first byte of 0x80 or more makes it negative.
ChunkLength(b, off) ==
    LET b0 == ToInt(At(b, off))
        b1 == ToInt(At(b, off + 1))
        b2 == ToInt(At(b, off + 2))
        b3 == ToInt(At(b, off + 3))
        hi == IF b0 >= 128 THEN b0 - 256 ELSE b0
    IN  hi * 16777216 + b1 * 65536 + b2 * 256 + b3

\* Lines 27-30: String.fromCharCode of the four type bytes.
ChunkType(b, off) ==
    <<ToInt(At(b, off + 4)), ToInt(At(b, off + 5)),
      ToInt(At(b, off + 6)), ToInt(At(b, off + 7))>>

tEXt == <<116, 69, 88, 116>>
iTXt == <<105, 84, 88, 116>>
zTXt == <<122, 84, 88, 116>>
IHDR == <<73, 72, 68, 82>>

EmptyMap == << >>

\* chunks[keyword] = text
MapPut(m, k, v) == [x \in (DOMAIN m) \cup {k} |-> IF x = k THEN v ELSE m[x]]

\* Line 33: which chunk types are looked into.
IsTextType(type) == type = tEXt \/ type = iTXt \/ type = zTXt

\* Faulty variant of SplitText: the payload is split at its last null byte.
SplitTextAtLastNull(m, chunkData) ==
    LET nulls == {i \in 1..Len(chunkData) : chunkData[i] = 0}
        last  == CHOOSE i \in nulls : \A j \in nulls : j <= i
    IN  IF nulls # {}
        THEN MapPut(m, Decode(SubSeq(chunkData, 1, last - 1)),
                       Decode(SubSeq(chunkData, last + 1, Len(chunkData))))
        ELSE m

\* Lines 37-44: a tEXt payload is split at its first null byte.
SplitText(m, chunkData) ==
    LET nullIndex == IndexOfNull(chunkData)
    IN  IF nullIndex # -1
        THEN MapPut(m, Decode(Slice(chunkData, 0, nullIndex)),
                       Decode(Slice(chunkData, nullIndex + 1, Len(chunkData))))
        ELSE m

\* Lines 33-46: the body of one loop iteration, without the cursor move.
ReadChunk(m, b, off) ==
    LET length    == ChunkLength(b, off)
        type      == ChunkType(b, off)
        dataStart == off + 8
        chunkData == Slice(b, dataStart, dataStart + length)
    IN  IF IsTextType(type) /\ type = tEXt THEN SplitText(m, chunkData) ELSE m

\* Line 49: offset += 8 + length + 4
NextOffset(b, off) == off + 8 + ChunkLength(b, off) + 4

\* --- the inputs ---------------------------------------------------------
PngSignature == <<137, 80, 78, 71, 13, 10, 26, 10>>

\* A 4-byte big-endian length field of a well-formed chunk (payloads here
\* are shorter than 256 bytes).
BE32(n) == <<0, 0, 0, n>>

\* A well-formed chunk: length, type, payload, 4 bytes of CRC (not verified
\* by the extractor).
EncodeChunk(c) == BE32(Len(c.data)) \o c.type \o c.data \o <<1, 2, 3, 4>>

kwPrompt == <<112, 114, 111, 109, 112, 116>>    \* "prompt"
txHello  == <<104, 101, 108, 108, 111>>         \* "hello"

\* The well-formed chunks buffers are built from.
GoodChunks ==
    { [type |-> tEXt, data |-> kwPrompt \o <<0>> \o txHello],
      [type |-> tEXt, data |-> kwPrompt \o <<0>> \o <<120>>],
      [type |-> tEXt, data |-> <<107, 0, 118, 0, 119>>],
      [type |-> tEXt, data |-> <<107, 0>>],
      [type |-> tEXt, data |-> <<107, 118>>],
      [type |-> iTXt, data |-> <<105, 0, 118>>],
      [type |-> zTXt, data |-> <<122, 0, 118>>],
      [type |-> IHDR, data |-> <<0, 0, 0, 1>>],
      [type |-> IHDR, data |-> << >>] }

\* Chunks whose length field is wrong: larger than the rest of the buffer,
\* or with the high bit set (0xFFFFFFF4 = -12, 0xFFFFFFE8 = -24).
BadChunks ==
    { [raw |-> <<0, 1, 0, 0>> \o tEXt \o <<107, 0, 118, 1, 2, 3, 4>>],
      [raw |-> <<255, 255, 255, 244>> \o tEXt \o <<107, 0, 118, 1, 2, 3, 4>>],
      [raw |-> <<255, 255, 255, 232>> \o IHDR \o <<107, 0, 118, 1, 2, 3, 4>>] }

ChunkBytes(c) == IF "raw" \in DOMAIN c THEN c.raw ELSE EncodeChunk(c)

\* What stands where the signature should.
Headers ==
    { PngSignature,
      <<137, 80, 78, 71, 0, 0, 0, 0>>,      \* bytes 5-8 wrong
      <<137, 80, 78, 70, 13, 10, 26, 10>>,  \* byte 4 wrong
      <<137, 80, 78, 71>>,                  \* shorter than 8 bytes
      << >> }

\* How many bytes a truncated buffer misses at its end: none, part of the
\* CRC, the CRC and part of the payload, a whole chunk and more.
Cuts == {0, 1, 6, 13}

PngSources ==
    [ header : Headers,
      body   : SeqUpTo(GoodChunks \cup BadChunks, MaxChunks),
      cut    : Cuts ]

BuildBuffer(s) ==
    LET full == s.header \o Concat([i \in 1..Len(s.body) |-> ChunkBytes(s.body[i])])
    IN  SubSeq(full, 1, Max(Len(full) - s.cut, 0))

InitPng ==
    /\ pngSrc \in PngSources
    /\ buf = BuildBuffer(pngSrc)
    /\ offset = 0
    /\ chunks = EmptyMap
    /\ visited = {}
    /\ pngPc = "start"

PngIdle ==
    /\ pngSrc = [header |-> << >>, body |-> << >>, cut |-> 0]
    /\ buf = << >>
    /\ offset = 0
    /\ chunks = EmptyMap
    /\ visited = {}
    /\ pngPc = "done"

\* Lines 11-19: the signature check.
PngCheckSignature ==
    /\ pngPc = "start"
    /\ IF SignatureRejected(buf)
       THEN pngPc' = "done" /\ offset' = offset
       ELSE pngPc' = "walk" /\ offset' = 8
    /\ UNCHANGED <<pngSrc, buf, chunks, visited>>

\* Lines 21-50: one iteration of the chunk walk.
PngWalkStep ==
    /\ pngPc = "walk"
    /\ LoopGuard(buf, offset)
    /\ chunks' = ReadChunk(chunks, buf, offset)
    /\ offset' = NextOffset(buf, offset)
    /\ visited' = visited \cup {offset}
    /\ UNCHANGED <<pngSrc, buf, pngPc>>

\* Line 52: the loop is left and the mapping returned.
PngReturn ==
    /\ pngPc = "walk"
    /\ ~LoopGuard(buf, offset)
    /\ pngPc' = "done"
    /\ UNCHANGED <<pngSrc, buf, offset, chunks, visited>>

NextPng ==
    \/ PngCheckSignature /\ UNCHANGED <<cleanVars, parserVars, thumbVars, modalVars, nameVars, storeVars, twiceVars, serverVars, deleteVars, miniVars, searchVars, migrateVars, backupVars>>
    \/ PngWalkStep /\ UNCHANGED <<cleanVars, parserVars, thumbVars, modalVars, nameVars, storeVars, twiceVars, serverVars, deleteVars, miniVars, searchVars, migrateVars, backupVars>>
    \/ PngReturn /\ UNCHANGED <<cleanVars, parserVars, thumbVars, modalVars, nameVars, storeVars, twiceVars, serverVars, deleteVars, miniVars, searchVars, migrateVars, backupVars>>

(***************************************************************************)
(* Prompt/text cleaner (utils.js). A JavaScript string is the sequence of  *)
(* its characters.                                                         *)
(***************************************************************************)
\* Bound of the generated inputs: how many pieces a text is made of.
MaxPieces == 3

UpperChars ==
    <<"A", "B", "C", "D", "E", "F", "G", "H", "I", "J", "K", "L", "M", "N",
      "O", "P", "Q", "R", "S", "T", "U", "V", "W", "X", "Y", "Z">>
LowerChars ==
    <<"a", "b", "c", "d", "e", "f", "g", "h", "i", "j", "k", "l", "m", "n",
      "o", "p", "q", "r", "s", "t", "u", "v", "w", "x", "y", "z">>
Digits == {"0", "1", "2", "3", "4", "5", "6", "7", "8", "9"}

\* \s of a regular expression, and what String.prototype.trim removes.
IsSpace(c) == c \in {" ", "\n", "\t", "\r"}

\* The /i flag: letters are compared without their case.
Lower(c) ==
    IF \E k \in 1..26 : UpperChars[k] = c
    THEN LowerChars[CHOOSE k \in 1..26 : UpperChars[k] = c]
    ELSE c

\* \w (and so the two sides of \b): [A-Za-z0-9_].
IsWordChar(c) == Lower(c) \in {LowerChars[k] : k \in 1..26} \cup Digits \cup {"_"}

\* Whether the literal lit (in lower case) stands at index i of text, case ignored.
StartsWithCI(text, i, lit) ==
    /\ i + Len(lit) - 1 <= Len(text)
    /\ \A j \in 1..Len(lit) : Lower(text[i + j - 1]) = lit[j]

\* \d and [\d.]
IsDigit(c) == c \in Digits
IsDigitOrDot(c) == c \in Digits \cup {"."}

\* Whether character c is in the character class cls of a regular expression.
InClass(cls, c) ==
    CASE cls = "\\s"     -> IsSpace(c)
      [] cls = "\\w"     -> IsWordChar(c)
      [] cls = "\\d"     -> IsDigit(c)
      [] cls = "[\\d.]"  -> IsDigitOrDot(c)

\* A greedy character-class repetition from index i: the first index at or
\* after i whose character is not in the class (Len + 1 if there is none).
SpanEnd(text, i, cls) ==
    LET stops == {j \in i..Len(text) : ~InClass(cls, text[j])}
    IN  IF stops = {} THEN Len(text) + 1
        ELSE CHOOSE j \in stops : \A k \in stops : j <= k

\* \b before a word character at index i.
WordBoundaryBefore(text, i) == i = 1 \/ ~IsWordChar(text[i - 1])

BoilerplatePrefix ==
    <<"a", "i", "d", "m", "a", "-", "n", "i", "j", "i", ",", " ", "n", "i",
      "j", "i", ",", " ", "a", "n", "i", "m", "e", " ", "s", "t", "y", "l",
      "e", ",", " ", "s", "h", "a", "r", "p", " ", "i", "m", "a", "g", "e">>

\* Line 47: text.replace(/^(aidma-niji, niji, anime style, sharp image\s*)/i, '')
StripPrefix(text) ==
    IF StartsWithCI(text, 1, BoilerplatePrefix)
    THEN SubSeq(text, SpanEnd(text, Len(BoilerplatePrefix) + 1, "\\s"), Len(text))
    ELSE text

kwEmbedding == <<"e", "m", "b", "e", "d", "d", "i", "n", "g">>
WeightWords == {<<"w", "e", "i", "g", "h", "t">>,
                <<"s", "t", "r", "e", "n", "g", "t", "h">>,
                <<"s", "c", "a", "l", "e">>, <<"r", "a", "t", "i", "o">>}
StepWords   == {<<"s", "t", "e", "p", "s">>, <<"c", "f", "g">>, <<"s", "e", "e", "d">>}

\* keyword ":" \s* value+ ","? at index i: the index after the match, 0 if none.
NoiseEnd(text, i, words, valueClass) ==
    IF \E w \in words : StartsWithCI(text, i, w \o <<":">>)
    THEN LET w == CHOOSE w \in words : StartsWithCI(text, i, w \o <<":">>)
             a == SpanEnd(text, i + Len(w) + 1, "\\s")
             b == SpanEnd(text, a, valueClass)
         IN  IF b = a THEN 0
             ELSE IF b <= Len(text) /\ text[b] = "," THEN b + 1 ELSE b
    ELSE 0

\* Where a match of the rule's regular expression that starts at index i
\* ends (the index after it), 0 if none starts there.
\*   line 51: /\bembedding:[\w\d_]+/gi
\*   line 54: /\b(weight|strength|scale|ratio):\s*[\d.]+(?:,?)/gi
\*   line 55: /\b(steps|cfg|seed):\s*\d+(?:,?)/gi
MatchEnd(rule, text, i) ==
    IF ~(IsWordChar(text[i]) /\ WordBoundaryBefore(text, i)) THEN 0
    ELSE CASE rule = "embedding" ->
                IF StartsWithCI(text, i, kwEmbedding \o <<":">>)
                THEN LET a == i + Len(kwEmbedding) + 1
                         b == SpanEnd(text, a, "\\w")
                     IN  IF b = a THEN 0 ELSE b
                ELSE 0
           [] rule = "weight" -> NoiseEnd(text, i, WeightWords, "[\\d.]")
           [] rule = "steps"  -> NoiseEnd(text, i, StepWords, "\\d")

RECURSIVE RemoveFrom(_, _, _)
\* text.replace(regex, '') with the g flag, from index i on: matches are
\* found left to right and do not overlap.
RemoveFrom(rule, text, i) ==
    IF i > Len(text) THEN << >>
    ELSE LET e == MatchEnd(rule, text, i)
         IN  IF e # 0 THEN RemoveFrom(rule, text, e)
             ELSE <<text[i]>> \o RemoveFrom(rule, text, i + 1)

RemoveAll(rule, text) == RemoveFrom(rule, text, 1)

RECURSIVE CollapseFrom(_, _)
\* Line 58: cleaned.replace(/\s+/g, ' ')
CollapseFrom(text, i) ==
    IF i > Len(text) THEN << >>
    ELSE IF IsSpace(text[i])
         THEN <<" ">> \o CollapseFrom(text, SpanEnd(text, i, "\\s"))
         ELSE <<text[i]>> \o CollapseFrom(text, i + 1)

\* Line 59: cleaned.trim()
Trim(text) ==
    LET keep == {j \in 1..Len(text) : ~IsSpace(text[j])}
    IN  IF keep = {} THEN << >>
        ELSE SubSeq(text, CHOOSE j \in keep : \A k \in keep : j <= k,
                          CHOOSE j \in keep : \A k \in keep : k <= j)

\* Lines 40-65.
cleanPromptText(text) ==
    IF text = << >> THEN << >>
    ELSE Trim(CollapseFrom(
            RemoveAll("steps", RemoveAll("weight", RemoveAll("embedding",
                StripPrefix(text)))), 1))

\* The pieces the input texts are made of.
Pieces ==
    { <<" ">>, <<"\n">>, BoilerplatePrefix, <<"A">> \o Tail(BoilerplatePrefix),
      <<"c", "a", "t">>, <<"c", "f", "g">> \o <<":">>, <<"c", "f", "g", ":", "1", ",">>, <<"2">>,
      <<"S", "c", "a", "l", "e", ":">>, <<".", "5">>, kwEmbedding \o <<":", "x", "_", "1">> }

CleanInputs == {Concat(ps) : ps \in SeqUpTo(Pieces, MaxPieces)}

InitClean ==
    /\ cleanIn \in CleanInputs
    /\ cleanOnce = << >>
    /\ cleanTwice = << >>
    /\ cleanPc = "start"

\* cleaned = cleanPromptText(text)
CleanFirst ==
    /\ cleanPc = "start"
    /\ cleanOnce' = cleanPromptText(cleanIn)
    /\ cleanPc' = "once"
    /\ UNCHANGED <<cleanIn, cleanTwice>>

\* The cleaner run again on its own output (the maintenance batch job runs
\* it on stored prompts, so on text it has already cleaned).
CleanSecond ==
    /\ cleanPc = "once"
    /\ cleanTwice' = cleanPromptText(cleanOnce)
    /\ cleanPc' = "twice"
    /\ UNCHANGED <<cleanIn, cleanOnce>>

NextClean ==
    \/ CleanFirst /\ UNCHANGED <<pngVars, parserVars, thumbVars, modalVars, nameVars, storeVars, twiceVars, serverVars, deleteVars, miniVars, searchVars, migrateVars, backupVars>>
    \/ CleanSecond /\ UNCHANGED <<pngVars, parserVars, thumbVars, modalVars, nameVars, storeVars, twiceVars, serverVars, deleteVars, miniVars, searchVars, migrateVars, backupVars>>

(***************************************************************************)
(* JavaScript values as the parsers see them. A string is a sequence of    *)
(* atoms: an atom is one whitespace character (" ", "\n") or a run of text *)
(* that neither starts nor ends with whitespace, so that trim and length   *)
(* are computed on it. The emoji that open the note lines are written as   *)
(* bracketed names ([robot], [calendar], ...).                             *)
(***************************************************************************)
Str(s)  == [t |-> "str", s |-> s]
Num(n)  == [t |-> "num", n |-> n]
Obj(ps) == [t |-> "obj", props |-> ps]     \* <<key, value>> in for-in order
Arr(a)  == [t |-> "arr", a |-> a]
Null    == [t |-> "null"]
JsUndefined == [t |-> "undef"]
EmptyStr == Str(<< >>)

RECURSIVE StrLen(_)
\* s.length of a string given by its atoms.
StrLen(s) == IF s = << >> THEN 0 ELSE Len(Head(s)) + StrLen(Tail(s))

\* if (v), !v, v || w: the truthiness of a value.
Truthy(v) ==
    CASE v.t = "str" -> v.s # << >>
      [] v.t = "num" -> v.n # 0
      [] v.t \in {"obj", "arr"} -> TRUE
      [] OTHER -> FALSE

\* Reading a property of null or undefined throws a TypeError.
PropThrows(v) == v.t \in {"null", "undef"}

\* v[k] for a value that is not null or undefined: undefined unless v is an
\* object that has the property.
Get(v, k) ==
    IF v.t = "obj" /\ \E i \in 1..Len(v.props) : v.props[i][1] = k
    THEN v.props[CHOOSE i \in 1..Len(v.props) : v.props[i][1] = k][2]
    ELSE JsUndefined

\* v.length > n (undefined > n is false).
LengthGt(v, n) ==
    CASE v.t = "arr" -> Len(v.a) > n
      [] v.t = "str" -> StrLen(v.s) > n
      [] OTHER -> FALSE

DigitStr == <<"0", "1", "2", "3", "4", "5", "6", "7", "8", "9">>

RECURSIVE NumStr(_)
\* The decimal digits of a natural number, as one atom.
NumStr(n) ==
    IF n < 10 THEN DigitStr[n + 1] ELSE NumStr(n \div 10) \o DigitStr[(n % 10) + 1]

RECURSIVE JoinWith(_, _)
\* array.join(sep) of an array of strings.
JoinWith(ss, sep) ==
    IF ss = << >> THEN << >>
    ELSE IF Len(ss) = 1 THEN ss[1]
    ELSE ss[1] \o sep \o JoinWith(Tail(ss), sep)

RECURSIVE JsToString(_)
\* `${v}`: the string conversion of a template literal.
JsToString(v) ==
    CASE v.t = "str" -> v.s
      [] v.t = "num" -> <<NumStr(v.n)>>
      [] v.t = "null" -> <<"null">>
      [] v.t = "undef" -> <<"undefined">>
      [] v.t = "obj" -> <<"[object Object]">>
      [] v.t = "arr" ->
            JoinWith([i \in 1..Len(v.a) |->
                        IF PropThrows(v.a[i]) THEN << >> ELSE JsToString(v.a[i])], <<",">>)

\* A chunk's text is either raw text that is not JSON, or the JSON text of
\* a value. JSON.parse gives the value, or throws a SyntaxError.
RawText(s)  == [kind |-> "raw", text |-> s]
JsonText(v) == [kind |-> "json", value |-> v]
JSONParse(c) == IF c.kind = "json" THEN [ok |-> TRUE, value |-> c.value]
                ELSE [ok |-> FALSE]

\* chunks.key as a condition: the key is there and its text is not empty.
HasChunk(cs, key) ==
    key \in DOMAIN cs /\ (cs[key].kind = "json" \/ cs[key].text # << >>)

\* const aiInfo = {title: '', prompt: '', model: '', tags: '', notes: ''}
FieldNames == {"title", "prompt", "model", "tags", "notes"}
NewAiInfo == [f \in FieldNames |-> EmptyStr]

\* aiInfo.notes += s
AddNote(info, s) == [info EXCEPT !.notes = Str(@.s \o s)]

(***************************************************************************)
(* chatgptParser.js                                                        *)
(***************************************************************************)
\* Faulty variant of CombinedPrompt: the internal prompt comes first.
CombinedPromptInternalFirst(data) ==
    (IF Truthy(Get(data, "internal_prompt"))
     THEN <<"INTERNAL PROMPT:", "\n">> \o JsToString(Get(data, "internal_prompt")) \o <<"\n", "\n">>
     ELSE << >>)
    \o (IF Truthy(Get(data, "prompt"))
        THEN <<"USER PROMPT:", "\n">> \o JsToString(Get(data, "prompt"))
        ELSE << >>)

\* Lines 26-34: combinedPrompt.
CombinedPrompt(data) ==
    (IF Truthy(Get(data, "prompt"))
     THEN <<"USER PROMPT:", "\n">> \o JsToString(Get(data, "prompt")) \o <<"\n", "\n">>
     ELSE << >>)
    \o (IF Truthy(Get(data, "internal_prompt"))
        THEN <<"INTERNAL PROMPT:", "\n">> \o JsToString(Get(data, "internal_prompt"))
        ELSE << >>)

\* One line of notes: `<label> ${v}<suffix>\n`.
NoteLine(label, v, suffix) == <<label, " ">> \o JsToString(v) \o suffix \o <<"\n">>

\* A line that is appended only if the field is truthy.
OptionalLine(data, field, label, suffix) ==
    IF Truthy(Get(data, field)) THEN NoteLine(label, Get(data, field), suffix) ELSE << >>

\* Faulty variant of ChatGPTNotes: the style line is written before the filename line.
ChatGPTNotesStyleFirst(data) ==
    <<"[robot] ChatGPT Image Generation", "\n">>
    \o NoteLine("[calendar] Generated:",
                IF Truthy(Get(data, "date_generated")) THEN Get(data, "date_generated")
                ELSE Str(<<"Unknown">>), << >>)
    \o OptionalLine(data, "style", "[palette] Style:", << >>)
    \o OptionalLine(data, "filename", "[page] Original filename:", << >>)
    \o OptionalLine(data, "aspect_ratio", "[ruler] Aspect ratio:", << >>)
    \o OptionalLine(data, "resolution", "[magnifier] Resolution:", << >>)
    \o OptionalLine(data, "file_size_mb", "[disk] File size:", <<" ", "MB">>)
    \o OptionalLine(data, "source_image", "[picture] Source image:", << >>)

\* Lines 44-69: the notes of a successful parse.
ChatGPTNotes(data) ==
    <<"[robot] ChatGPT Image Generation", "\n">>
    \o NoteLine("[calendar] Generated:",
                IF Truthy(Get(data, "date_generated")) THEN Get(data, "date_generated")
                ELSE Str(<<"Unknown">>), << >>)
    \o OptionalLine(data, "filename", "[page] Original filename:", << >>)
    \o OptionalLine(data, "style", "[palette] Style:", << >>)
    \o OptionalLine(data, "aspect_ratio", "[ruler] Aspect ratio:", << >>)
    \o OptionalLine(data, "resolution", "[magnifier] Resolution:", << >>)
    \o OptionalLine(data, "file_size_mb", "[disk] File size:", <<" ", "MB">>)
    \o OptionalLine(data, "source_image", "[picture] Source image:", << >>)

ChatGPTFailureNote == <<"[robot] ChatGPT data found but could not parse JSON", "\n">>

\* Lines 22-74: the try block. It throws when the text is not JSON, and at
\* the first property read when the JSON value is null.
ChatGPTTry(info, cs) ==
    LET parsed == JSONParse(cs["prompt"])
    IN  IF ~parsed.ok \/ PropThrows(parsed.value)
        THEN [threw |-> TRUE, info |-> info]
        ELSE LET data == parsed.value
                 i1 == [info EXCEPT !.prompt = Str(Trim(CombinedPrompt(data)))]
                 i2 == IF Truthy(Get(data, "tool"))
                       THEN [i1 EXCEPT !.model = Get(data, "tool")] ELSE i1
                 i3 == AddNote(i2, ChatGPTNotes(data))
             IN  [threw |-> FALSE,
                  info |-> [i3 EXCEPT !.tags = Str(<<"ChatGPT,AI-Generated,Image-Gen">>)]]

\* Lines 76-80: the catch block.
ChatGPTCatch(info) ==
    [AddNote(info, ChatGPTFailureNote) EXCEPT !.tags = Str(<<"ChatGPT,AI-Generated">>)]

\* Faulty variant of ChatGPTGuarded: no try/catch around the block.
ChatGPTUnguarded(info, cs) ==
    LET r == ChatGPTTry(info, cs)
    IN  [info |-> r.info, escaped |-> r.threw,
         threw |-> IF r.threw THEN {"prompt"} ELSE {}]

\* Lines 21-80: try { ... } catch (e) { ... }.
ChatGPTGuarded(info, cs) ==
    LET r == ChatGPTTry(info, cs)
    IN  [info |-> IF r.threw THEN ChatGPTCatch(r.info) ELSE r.info,
         escaped |-> FALSE,
         threw |-> IF r.threw THEN {"prompt"} ELSE {}]

\* Lines 10-84. The result carries, beside aiInfo, whether an exception
\* left the function and which chunks' try blocks threw.
extractChatGPTInfo(cs) ==
    IF HasChunk(cs, "prompt") THEN ChatGPTGuarded(NewAiInfo, cs)
    ELSE [info |-> NewAiInfo, escaped |-> FALSE, threw |-> {}]

(***************************************************************************)
(* comfyuiParser.js                                                        *)
(***************************************************************************)
\* The values a for...in loop over v visits, in its order: the properties
\* of an object, the elements of an array. (The characters of a string have
\* no inputs and no class_type, a number has no properties.)
ForInValues(v) ==
    CASE v.t = "obj" -> [i \in 1..Len(v.props) |-> v.props[i][2]]
      [] v.t = "arr" -> v.a
      [] OTHER -> << >>

\* a[0]
Index0(v) == IF v.t = "arr" /\ Len(v.a) > 0 THEN v.a[1] ELSE JsUndefined

\* Of the elements of a sequence at the indexes hits (those that pass a
\* loop's test), the first, as a one-element sequence; empty if there is
\* none (a loop that breaks at its first hit).
FirstWhere(seq, hits) ==
    IF hits = {} THEN << >>
    ELSE <<seq[CHOOSE i \in hits : \A j \in hits : i <= j]>>

\* Faulty variant of FirstWhere: the last element that passes the test (a
\* loop with no break).
LastWhere(seq, hits) ==
    IF hits = {} THEN << >>
    ELSE <<seq[CHOOSE i \in hits : \A j \in hits : j <= i]>>

\* Lines 61-63: a CLIPTextEncode node whose first widget value is a string
\* longer than 10 characters.
IsPromptNode(node) ==
    /\ Get(node, "type") = Str(<<"CLIPTextEncode">>)
    /\ Truthy(Get(node, "widgets_values"))
    /\ LengthGt(Get(node, "widgets_values"), 0)
    /\ Index0(Get(node, "widgets_values")).t = "str"
    /\ StrLen(Index0(Get(node, "widgets_values")).s) > 10
PromptNodeHits(seq) == {i \in 1..Len(seq) : IsPromptNode(seq[i])}

\* Faulty variant of NewFormatPrompt: the last matching node wins.
NewFormatPromptLast(nodes) ==
    LET hit == LastWhere(nodes, PromptNodeHits(nodes))
    IN  IF hit = << >> THEN EmptyStr ELSE Index0(Get(hit[1], "widgets_values"))

\* Lines 59-68: the prompt of a workflow with a nodes array ('' if none).
NewFormatPrompt(nodes) ==
    LET hit == FirstWhere(nodes, PromptNodeHits(nodes))
    IN  IF hit = << >> THEN EmptyStr ELSE Index0(Get(hit[1], "widgets_values"))

\* Lines 73-74: a node whose inputs.text is a string longer than 10.
IsOldPromptNode(node) ==
    /\ Truthy(Get(node, "inputs"))
    /\ Truthy(Get(Get(node, "inputs"), "text"))
    /\ Get(Get(node, "inputs"), "text").t = "str"
    /\ StrLen(Get(Get(node, "inputs"), "text").s) > 10
OldPromptNodeHits(seq) == {i \in 1..Len(seq) : IsOldPromptNode(seq[i])}

\* Lines 70-79: the prompt of a workflow keyed by node id ('' if none).
OldFormatPrompt(workflow) ==
    LET hit == FirstWhere(ForInValues(workflow), OldPromptNodeHits(ForInValues(workflow)))
    IN  IF hit = << >> THEN EmptyStr ELSE Get(Get(hit[1], "inputs"), "text")

\* Line 54: Array.from(nodeTypes).sort(), for the node types of the inputs
\* ("CLIPTextEncode" sorts before "KSampler").
SortedNodeTypes(types) ==
    SelectSeq(<<Str(<<"CLIPTextEncode">>), Str(<<"KSampler">>)>>, LAMBDA x : x \in types)

\* Lines 50-56: the summary lines.
WorkflowSummary(nodeCount, nodeTypes) ==
    <<"[wrench] ComfyUI Workflow detected", " ", "(" \o NumStr(nodeCount), " ", "nodes)", "\n">>
    \o (IF nodeTypes # {}
        THEN <<"[link] Node Types:", " ">>
             \o JoinWith([i \in 1..Len(SortedNodeTypes(nodeTypes)) |->
                            JsToString(SortedNodeTypes(nodeTypes)[i])], <<",", " ">>)
             \o <<"\n">>
        ELSE << >>)

ComfyRawNote == <<"[wrench] ComfyUI Workflow data found (raw)", "\n">>

\* Lines 22-80: the try block of the workflow chunk. It throws when the text
\* is not JSON, when the JSON value is null (workflow.nodes), and when a
\* node is null (node.type, node.class_type); the date line is appended
\* before the last two.
ComfyWorkflowTry(info, cs, today) ==
    LET parsed == JSONParse(cs["workflow"])
    IN  IF ~parsed.ok THEN [threw |-> TRUE, info |-> info]
        ELSE
        LET workflow == parsed.value
            i1 == AddNote(info, <<"[calendar] Generated:", " ">> \o today \o <<"\n">>)
        IN  IF PropThrows(workflow) THEN [threw |-> TRUE, info |-> i1]
            ELSE
            LET nodes   == Get(workflow, "nodes")
                isNew   == Truthy(nodes) /\ nodes.t = "arr"
                counted == isNew \/ workflow.t \in {"obj", "arr"}
                entries == IF isNew THEN nodes.a
                           ELSE IF counted THEN ForInValues(workflow) ELSE << >>
                typeKey == IF isNew THEN "type" ELSE "class_type"
            IN  IF \E i \in 1..Len(entries) : PropThrows(entries[i])
                THEN [threw |-> TRUE, info |-> i1]
                ELSE
                LET nodeTypes == {Get(entries[i], typeKey) : i \in
                                    {j \in 1..Len(entries) : Truthy(Get(entries[j], typeKey))}}
                    i2 == AddNote(i1, WorkflowSummary(Len(entries), nodeTypes))
                    found == IF isNew THEN NewFormatPrompt(nodes.a)
                             ELSE OldFormatPrompt(workflow)
                IN  [threw |-> FALSE,
                     info |-> IF Truthy(found) THEN [i2 EXCEPT !.prompt = found] ELSE i2]

\* Lines 20-84: try { ... } catch (e) { notes += raw note }.
ComfyWorkflow(info, cs, today) ==
    IF ~HasChunk(cs, "workflow") THEN [threw |-> FALSE, info |-> info]
    ELSE LET r == ComfyWorkflowTry(info, cs, today)
         IN  IF r.threw THEN [threw |-> TRUE, info |-> AddNote(r.info, ComfyRawNote)]
             ELSE r

\* Faulty variant of IsLongString: a string of 10 characters passes too.
IsLongStringFrom10(v) == v.t = "str" /\ StrLen(v.s) >= 10

\* Line 93: a property that is a string longer than 10 characters.
IsLongString(v) == v.t = "str" /\ StrLen(v.s) > 10
LongStringHits(seq) == {i \in 1..Len(seq) : IsLongString(seq[i])}

\* Lines 87-105: the prompt chunk, looked at only while no prompt is set.
ComfyPromptChunk(info, cs) ==
    IF ~(HasChunk(cs, "prompt") /\ ~Truthy(info.prompt))
    THEN [threw |-> FALSE, info |-> info]
    ELSE LET parsed == JSONParse(cs["prompt"])
         IN  IF parsed.ok
             THEN LET hit == IF parsed.value.t \in {"obj", "arr", "null"}
                             THEN FirstWhere(ForInValues(parsed.value), LongStringHits(ForInValues(parsed.value)))
                             ELSE << >>
                  IN  [threw |-> FALSE,
                       info |-> IF hit = << >> THEN info ELSE [info EXCEPT !.prompt = hit[1]]]
             ELSE [threw |-> TRUE,
                   info |-> IF StrLen(cs["prompt"].text) > 5
                            THEN [info EXCEPT !.prompt = Str(cs["prompt"].text)]
                            ELSE info]

\* Lines 108-112: AUTOMATIC1111 parameters.
ComfyParameters(info, cs) ==
    IF HasChunk(cs, "parameters")
    THEN [AddNote(info, <<"[robot] A1111 Parameters detected", "\n">>) EXCEPT
            !.prompt = IF Truthy(info.prompt) THEN info.prompt
                       ELSE Str(cs["parameters"].text),
            !.tags = Str(<<"AUTOMATIC1111,AI-Generated">>)]
    ELSE info

\* Lines 115-121: Software, then software.
ComfySoftware(info, cs) ==
    LET i1 == IF HasChunk(cs, "Software")
              THEN [info EXCEPT !.model = Str(cs["Software"].text)] ELSE info
    IN  IF HasChunk(cs, "software")
        THEN [i1 EXCEPT !.model = Str(cs["software"].text)] ELSE i1

\* Faulty variant of ComfyTags: the ComfyUI tags replace tags set already.
ComfyTagsOverwrite(info, cs) ==
    IF HasChunk(cs, "workflow") \/ (HasChunk(cs, "prompt") /\ ~HasChunk(cs, "parameters"))
    THEN [info EXCEPT !.tags = Str(<<"ComfyUI,AI-Generated">>)]
    ELSE info

\* Lines 124-126: the ComfyUI tags, unless tags are set already.
ComfyTags(info, cs) ==
    IF HasChunk(cs, "workflow") \/ (HasChunk(cs, "prompt") /\ ~HasChunk(cs, "parameters"))
    THEN [info EXCEPT !.tags = IF Truthy(info.tags) THEN info.tags
                                ELSE Str(<<"ComfyUI,AI-Generated">>)]
    ELSE info

\* Lines 10-129. today is new Date().toLocaleDateString() at the call.
extractComfyUIInfo(cs, today) ==
    LET w == ComfyWorkflow(NewAiInfo, cs, today)
        q == ComfyPromptChunk(w.info, cs)
    IN  [info |-> ComfyTags(ComfySoftware(ComfyParameters(q.info, cs), cs), cs),
         escaped |-> FALSE,
         threw |-> (IF w.threw THEN {"workflow"} ELSE {})
                   \cup (IF q.threw THEN {"prompt"} ELSE {})]

(***************************************************************************)
(* The chunk mappings the parsers are called with                          *)
(***************************************************************************)
\* Bounds of the generated inputs.
MaxNodes      == 2    \* nodes of a generated workflow
MaxNoteFields == 2    \* optional note fields of a generated ChatGPT record

LongA == <<"a cat sitting on a mat, 4k">>
LongB == <<"portrait of a dog, oil painting">>
TenChars == <<"0123456789">>

ClipNode(widgets) ==
    Obj(<<<<"type", Str(<<"CLIPTextEncode">>)>>, <<"widgets_values", Arr(widgets)>>>>)

\* The nodes of the generated workflows; null is a node list entry too.
Nodes ==
    { ClipNode(<<Str(LongA)>>),
      ClipNode(<<Str(LongB)>>),
      ClipNode(<<Str(TenChars)>>),
      ClipNode(<<Num(7), Str(LongA)>>),
      ClipNode(<< >>),
      Obj(<<<<"type", Str(<<"KSampler">>)>>, <<"widgets_values", Arr(<<Str(LongB)>>)>>>>),
      Null }

OldNode(class, text) ==
    Obj(<<<<"class_type", Str(<<class>>)>>, <<"inputs", Obj(<<<<"text", text>>>>)>>>>)

\* The workflow chunk: absent (no entry), text that is not JSON, JSON that
\* is null or a number, workflows keyed by node id, workflows with a nodes
\* array.
WorkflowChunks ==
    { RawText(<< >>), RawText(<<"not", " ", "json">>), JsonText(Null), JsonText(Num(5)),
      JsonText(Obj(<<<<"3", OldNode("KSampler", Num(7))>>,
                     <<"6", OldNode("CLIPTextEncode", Str(LongA))>>,
                     <<"7", OldNode("CLIPTextEncode", Str(LongB))>>>>)),
      JsonText(Obj(<<<<"3", Null>>>>)) }
    \cup {JsonText(Obj(<<<<"nodes", Arr(ns)>>>>)) : ns \in SeqUpTo(Nodes, MaxNodes)}

NoteFields ==
    <<"date_generated", "filename", "style", "aspect_ratio", "resolution",
      "file_size_mb", "source_image">>

NoteValues ==
    <<Str(<<"2024-01-01">>), Str(<<"fox.png">>), Str(<<"vivid">>), Str(<<"1:1">>),
      Str(<<"1024x1024">>), Num(2), Str(<<"source.png">>)>>

\* A ChatGPT record: tool, prompt, internal_prompt (JsUndefined: left out)
\* and the note fields of the set present.
ChatGPTRecord(tool, prompt, internal, present) ==
    Obj(SelectSeq(<<<<"tool", tool>>, <<"prompt", prompt>>, <<"internal_prompt", internal>>>>,
                  LAMBDA pr : pr[2] # JsUndefined)
        \o SelectSeq([i \in 1..7 |-> <<NoteFields[i], NoteValues[i]>>],
                     LAMBDA pr : pr[1] \in present))

NoteFieldSets ==
    {S \in SUBSET {NoteFields[i] : i \in 1..7} : Cardinality(S) <= MaxNoteFields}

ChatGPTRecords ==
    { ChatGPTRecord(tool, prompt, internal, present) :
        tool \in {JsUndefined, Str(<<"ChatGPT-4">>), Num(4)},
        prompt \in {JsUndefined, Str(<<"a red fox">>), Str(<<"a red fox", "\n">>)},
        internal \in {JsUndefined, Str(<<"A photo of a red fox">>), Obj(<< >>)},
        present \in NoteFieldSets }
    \cup { Obj(<<<<"tool", EmptyStr>>, <<"prompt", EmptyStr>>, <<"date_generated", EmptyStr>>,
                 <<"style", Num(0)>>, <<"filename", Null>>>>) }

\* The prompt chunk of the ComfyUI inputs.
PromptChunks ==
    { RawText(<< >>), RawText(<<"plain", " ", "text", " ", "prompt">>), RawText(<<"hello">>),
      JsonText(Null), JsonText(Num(5)),
      JsonText(Obj(<<<<"a", Str(TenChars)>>, <<"b", Num(7)>>, <<"c", Str(LongB)>>,
                     <<"d", Str(LongA)>>>>)),
      JsonText(ChatGPTRecord(Str(<<"ChatGPT-4">>), Str(<<"a red fox">>), JsUndefined,
                             {"date_generated"})) }

\* A mapping with the given chunks; Absent marks a key that is left out.
Absent == [kind |-> "absent"]
ChunkMap(w, p, a, s1, s2) ==
    LET all == [k \in {"workflow", "prompt", "parameters", "Software", "software"} |->
                  CASE k = "workflow" -> w [] k = "prompt" -> p [] k = "parameters" -> a
                    [] k = "Software" -> s1 [] k = "software" -> s2]
    IN  [k \in {x \in DOMAIN all : all[x] # Absent} |-> all[k]]

Dates == {<<"1/1/2024">>, <<"1/2/2024">>}

ComfyInputs ==
    { [chunks |-> ChunkMap(w, p, a, s[1], s[2]), today |-> d] :
        w \in WorkflowChunks \cup {Absent},
        p \in PromptChunks \cup {Absent},
        a \in {Absent, RawText(<< >>),
               RawText(<<"masterpiece,", " ", "1girl", "\n", "Steps:", " ", "20">>)},
        s \in {<<Absent, Absent>>, <<RawText(<<"NovelAI">>), Absent>>,
               <<RawText(<<"NovelAI">>), RawText(<<"ComfyUI">>)>>},
        d \in Dates }

ChatGPTInputs ==
    { [chunks |-> ChunkMap(Absent, JsonText(r), Absent, Absent, Absent),
       today |-> <<"1/1/2024">>] : r \in ChatGPTRecords }

InitParsers ==
    /\ parserIn \in ComfyInputs \cup ChatGPTInputs
    /\ parserOut = << >>
    /\ parserPc = "ready"

\* aiInfo = extractChatGPTInfo(chunks)
CallChatGPT ==
    /\ parserPc = "ready"
    /\ parserOut' = [parser |-> "chatgpt"] @@ extractChatGPTInfo(parserIn.chunks)
    /\ parserPc' = "returned"
    /\ UNCHANGED parserIn

\* aiInfo = extractComfyUIInfo(chunks)
CallComfyUI ==
    /\ parserPc = "ready"
    /\ parserOut' = [parser |-> "comfyui"]
                    @@ extractComfyUIInfo(parserIn.chunks, parserIn.today)
    /\ parserPc' = "returned"
    /\ UNCHANGED parserIn

NextParsers ==
    \/ CallChatGPT /\ UNCHANGED <<pngVars, cleanVars, thumbVars, modalVars, nameVars, storeVars, twiceVars, serverVars, deleteVars, miniVars, searchVars, migrateVars, backupVars>>
    \/ CallComfyUI /\ UNCHANGED <<pngVars, cleanVars, thumbVars, modalVars, nameVars, storeVars, twiceVars, serverVars, deleteVars, miniVars, searchVars, migrateVars, backupVars>>

(***************************************************************************)
(* thumbnailGenerator.js: generateThumbnailWithPosition                    *)
(*                                                                         *)
(* The crop arithmetic is carried out on exact fractions n/d (d > 0); the  *)
(* rounding of the JavaScript numbers is not part of this model.           *)
(***************************************************************************)
MaxDim == 4

Rat(n, d) == [n |-> n, d |-> d]
RatMul(a, b) == Rat(a.n * b.n, a.d * b.d)
RatDiv(a, b) == IF b.n < 0 THEN Rat(-(a.n * b.d), -(a.d * b.n)) ELSE Rat(a.n * b.d, a.d * b.n)
RatSub(a, b) == Rat(a.n * b.d - b.n * a.d, a.d * b.d)
RatAdd(a, b) == Rat(a.n * b.d + b.n * a.d, a.d * b.d)
RatGt(a, b) == a.n * b.d > b.n * a.d
RatLe(a, b) == a.n * b.d <= b.n * a.d
RatEq(a, b) == a.n * b.d = b.n * a.d

\* Faulty variant of CropRect: the target aspect ratio applied the wrong way round.
CropRectInvertedRatio(img, position, targetWidth, targetHeight) ==
    LET aspectRatio       == RatDiv(Rat(img.width, 1), Rat(img.height, 1))
        targetAspectRatio == RatDiv(Rat(targetWidth, 1), Rat(targetHeight, 1))
    IN  IF RatGt(aspectRatio, targetAspectRatio)
        THEN LET srcHeight == Rat(img.height, 1)
                 srcWidth  == RatDiv(srcHeight, targetAspectRatio)
             IN  [srcX |-> RatMul(RatSub(Rat(img.width, 1), srcWidth), Rat(position.x, 100)),
                  srcY |-> Rat(0, 1), srcWidth |-> srcWidth, srcHeight |-> srcHeight]
        ELSE LET srcWidth  == Rat(img.width, 1)
                 srcHeight == RatMul(srcWidth, targetAspectRatio)
             IN  [srcX |-> Rat(0, 1),
                  srcY |-> RatMul(RatSub(Rat(img.height, 1), srcHeight), Rat(position.y, 100)),
                  srcWidth |-> srcWidth, srcHeight |-> srcHeight]

\* Faulty variant of CropRect: the offset is the focal percentage of the
\* source size, not of the slack.
CropRectOffsetOfSource(img, position, targetWidth, targetHeight) ==
    LET aspectRatio       == RatDiv(Rat(img.width, 1), Rat(img.height, 1))
        targetAspectRatio == RatDiv(Rat(targetWidth, 1), Rat(targetHeight, 1))
    IN  IF RatGt(aspectRatio, targetAspectRatio)
        THEN LET srcHeight == Rat(img.height, 1)
                 srcWidth  == RatMul(srcHeight, targetAspectRatio)
             IN  [srcX |-> RatMul(Rat(img.width, 1), Rat(position.x, 100)),
                  srcY |-> Rat(0, 1), srcWidth |-> srcWidth, srcHeight |-> srcHeight]
        ELSE LET srcWidth  == Rat(img.width, 1)
                 srcHeight == RatDiv(srcWidth, targetAspectRatio)
             IN  [srcX |-> Rat(0, 1),
                  srcY |-> RatMul(Rat(img.height, 1), Rat(position.y, 100)),
                  srcWidth |-> srcWidth, srcHeight |-> srcHeight]

\* The source rectangle that img.onload hands to drawImage.
CropRect(img, position, targetWidth, targetHeight) ==
    LET aspectRatio       == RatDiv(Rat(img.width, 1), Rat(img.height, 1))
        targetAspectRatio == RatDiv(Rat(targetWidth, 1), Rat(targetHeight, 1))
    IN  IF RatGt(aspectRatio, targetAspectRatio)
        THEN \* image is wider: crop horizontally
             LET srcHeight == Rat(img.height, 1)
                 srcWidth  == RatMul(srcHeight, targetAspectRatio)
             IN  [srcX |-> RatMul(RatSub(Rat(img.width, 1), srcWidth), Rat(position.x, 100)),
                  srcY |-> Rat(0, 1), srcWidth |-> srcWidth, srcHeight |-> srcHeight]
        ELSE \* image is taller: crop vertically
             LET srcWidth  == Rat(img.width, 1)
                 srcHeight == RatDiv(srcWidth, targetAspectRatio)
             IN  [srcX |-> Rat(0, 1),
                  srcY |-> RatMul(RatSub(Rat(img.height, 1), srcHeight), Rat(position.y, 100)),
                  srcWidth |-> srcWidth, srcHeight |-> srcHeight]

\* The focal percentages of the calls.
Positions == {0, 25, 50, 100}

ThumbInputs ==
    [img : [width : 1..MaxDim, height : 1..MaxDim],
     position : [x : Positions, y : Positions],
     targetWidth : 1..MaxDim, targetHeight : 1..MaxDim]

\* generateThumbnailWithPosition(imageDataUrl, position, targetWidth,
\* targetHeight) has set img.src; the image has yet to load.
InitThumb ==
    /\ thumbIn \in ThumbInputs
    /\ crop = << >>
    /\ thumbPc = "loading"

\* img.onload: the crop is computed and drawn, the promise resolves.
ThumbOnLoad ==
    /\ thumbPc = "loading"
    /\ crop' = CropRect(thumbIn.img, thumbIn.position, thumbIn.targetWidth, thumbIn.targetHeight)
    /\ thumbPc' = "resolved"
    /\ UNCHANGED thumbIn

\* img.onerror: the promise is rejected.
ThumbOnError ==
    /\ thumbPc = "loading"
    /\ thumbPc' = "rejected"
    /\ UNCHANGED <<thumbIn, crop>>

NextThumb ==
    \/ ThumbOnLoad /\ UNCHANGED <<pngVars, cleanVars, parserVars, modalVars, nameVars, storeVars, twiceVars, serverVars, deleteVars, miniVars, searchVars, migrateVars, backupVars>>
    \/ ThumbOnError /\ UNCHANGED <<pngVars, cleanVars, parserVars, modalVars, nameVars, storeVars, twiceVars, serverVars, deleteVars, miniVars, searchVars, migrateVars, backupVars>>

(***************************************************************************)
(* utils.js: cleanModelName                                                *)
(*                                                                         *)
(* Strings are sequences of characters, as for cleanPromptText.            *)
(***************************************************************************)
\* The characters of a string literal.
Chars(str) == [i \in 1..Len(str) |-> SubSeq(str, i, i)]

\* s.includes(sub)
Includes(s, sub) ==
    \E i \in 1..(Len(s) - Len(sub) + 1) : SubSeq(s, i, i + Len(sub) - 1) = sub

\* [\/\\]
IsSlash(c) == c \in {"/", "\\"}

\* What . of a regular expression does not match.
IsLineTerminator(c) == c \in {"\n", "\r"}

\* Line 72: modelName.replace(/\.(safetensors|ckpt|pt)$/i, '')
StripExtension(name) ==
    LET exts == {Chars(".safetensors"), Chars(".ckpt"), Chars(".pt")}
        ends == {e \in exts : Len(e) <= Len(name)
                               /\ StartsWithCI(name, Len(name) - Len(e) + 1, e)}
    IN  IF ends = {} THEN name
        ELSE SubSeq(name, 1, Len(name) - Len(CHOOSE e \in ends : TRUE))

\* Line 75: cleaned.replace(/^.*[\/\\]/, ''): the match starts at index 1
\* and ends at the last slash that no line terminator precedes.
StripPath(name) ==
    LET slashes == {i \in 1..Len(name) :
                      /\ IsSlash(name[i])
                      /\ \A j \in 1..(i - 1) : ~IsLineTerminator(name[j])}
    IN  IF slashes = {} THEN name
        ELSE SubSeq(name, (CHOOSE i \in slashes : \A j \in slashes : j <= i) + 1, Len(name))

\* Line 76: cleaned.replace(/^SDXL[\/\\]?/i, '')
StripSDXL(name) ==
    IF StartsWithCI(name, 1, Chars("sdxl"))
    THEN IF Len(name) >= 5 /\ IsSlash(name[5])
         THEN SubSeq(name, 6, Len(name)) ELSE SubSeq(name, 5, Len(name))
    ELSE name

\* Line 79: cleaned.replace(/_/g, ' ')
ReplaceUnderscores(name) == [i \in 1..Len(name) |-> IF name[i] = "_" THEN " " ELSE name[i]]

\* Lines 68-82.
cleanModelName(modelName) ==
    IF modelName = << >> THEN << >>
    ELSE Trim(ReplaceUnderscores(StripSDXL(StripPath(StripExtension(modelName)))))

MaxNamePieces == 3

NamePieces ==
    { Chars("loras/SDXL/"), Chars("my_lora_v2"), Chars(".safetensors"), Chars(".CKPT"),
      Chars(".pt"), Chars("SDXL"), Chars("sdxl\\"), <<"/">>, <<"_">>, <<" ">>, <<"\n">>,
      <<"a">> }

\* The names cleanModelName is given: up to MaxNamePieces pieces in a row.
NameInputs == { Concat(ps) : ps \in SeqUpTo(NamePieces, MaxNamePieces) }

InitName ==
    /\ nameIn \in NameInputs
    /\ nameOut = << >>
    /\ namePc = "called"

CallCleanModelName ==
    /\ namePc = "called"
    /\ nameOut' = cleanModelName(nameIn)
    /\ namePc' = "done"
    /\ UNCHANGED nameIn

NextName ==
    \/ CallCleanModelName /\ UNCHANGED <<pngVars, cleanVars, parserVars, thumbVars, modalVars, storeVars, twiceVars, serverVars, deleteVars, miniVars, searchVars, migrateVars, backupVars>>

(***************************************************************************)
(* metadata.js: extractTextFromWorkflow, extractModelFromWorkflow          *)
(*                                                                         *)
(* workflowData is a JSON value (Obj, Arr, Str, Num, Null) whose strings   *)
(* are sequences of characters. The two functions read and write the       *)
(* value of a form field; they are given the value and return the new one. *)
(***************************************************************************)
\* node.widgets_values if it is an array, no values otherwise.
WidgetValues(node) ==
    IF Get(node, "widgets_values").t = "arr" THEN Get(node, "widgets_values").a ELSE << >>

\* node.type === lit
TypeIs(node, lit) == Get(node, "type") = Str(Chars(lit))

\* node.type && node.type.includes(lit)
TypeIncludes(node, lit) ==
    /\ Get(node, "type").t = "str"
    /\ Includes(Get(node, "type").s, Chars(lit))

\* typeof value === 'string' && value.length > n, for each of the values.
StringsLongerThan(values, n) ==
    SelectSeq(values, LAMBDA v : v.t = "str" /\ StrLen(v.s) > n)

\* candidateTexts.push({text, priority, source: node.type, label}) for each
\* of the strings.
Candidates(strings, priority, node, label) ==
    [i \in 1..Len(strings) |->
        [text |-> strings[i].s, priority |-> priority,
         source |-> Get(node, "type").s, label |-> Chars(label)]]

\* Lines 299-313: custom prompt nodes.
CustomPromptTexts(node) ==
    IF TypeIncludes(node, "prompt")
    THEN Candidates(StringsLongerThan(WidgetValues(node), 20), 1, node, "Custom Prompt")
    ELSE << >>

\* Lines 315-341: ShowText nodes; a value is a string or an array of strings.
ShowTextTexts(node) ==
    IF TypeIs(node, "ShowText|pysssss")
    THEN Candidates(
            Concat([i \in 1..Len(WidgetValues(node)) |->
                      LET value == WidgetValues(node)[i]
                      IN  IF value.t = "arr" /\ Len(value.a) > 0
                          THEN StringsLongerThan(value.a, 20)
                          ELSE StringsLongerThan(<<value>>, 20)]),
            2, node, "Processed Text")
    ELSE << >>

\* Lines 343-356: the second value of a Text Find and Replace node.
ReplaceTexts(node) ==
    IF TypeIs(node, "Text Find and Replace") /\ Len(WidgetValues(node)) > 1
    THEN Candidates(StringsLongerThan(<<WidgetValues(node)[2]>>, 20), 3, node, "Replace Text")
    ELSE << >>

\* Lines 358-374: CLIPTextEncode nodes.
ClipTexts(node) ==
    IF TypeIs(node, "CLIPTextEncode")
    THEN LET kept == SelectSeq(StringsLongerThan(WidgetValues(node), 10),
                               LAMBDA v : ~Includes(v.s, Chars("embedding:")) \/ StrLen(v.s) > 30)
         IN  [i \in 1..Len(kept) |->
                [text |-> kept[i].s, priority |-> 4, source |-> Get(node, "type").s,
                 label |-> IF Includes(kept[i].s, Chars("embedding:"))
                           THEN Chars("Negative Prompt") ELSE Chars("Positive Prompt")]]
    ELSE << >>

\* Lines 376-390: other text nodes.
TextNodeTexts(node) ==
    IF TypeIs(node, "Text") \/ TypeIs(node, "TextBox") \/ TypeIncludes(node, "Text")
    THEN Candidates(StringsLongerThan(WidgetValues(node), 20), 5, node, "Text Node")
    ELSE << >>

\* Lines 296-391: the candidates of the nodes, in the order they are pushed.
CandidateTexts(nodes) ==
    Concat([i \in 1..Len(nodes) |->
              CustomPromptTexts(nodes[i]) \o ShowTextTexts(nodes[i]) \o ReplaceTexts(nodes[i])
              \o ClipTexts(nodes[i]) \o TextNodeTexts(nodes[i])])

RECURSIVE UniqueTexts(_, _)
\* Lines 394-404: a candidate is dropped if a retained one has the same
\* text, contains its text or is contained in it.
UniqueTexts(candidates, uniqueTexts) ==
    IF candidates = << >> THEN uniqueTexts
    ELSE LET candidate == Head(candidates)
             isDuplicate == \E k \in 1..Len(uniqueTexts) :
                               \/ Includes(uniqueTexts[k].text, candidate.text)
                               \/ Includes(candidate.text, uniqueTexts[k].text)
         IN  UniqueTexts(Tail(candidates),
                         IF isDuplicate THEN uniqueTexts ELSE Append(uniqueTexts, candidate))

\* Lines 407-412, the comparison: a sorts before b.
TextBefore(a, b) ==
    \/ a.priority < b.priority
    \/ a.priority = b.priority /\ Len(a.text) > Len(b.text)

RECURSIVE SortTexts(_)
\* Lines 407-412: Array.prototype.sort is stable.
SortTexts(texts) ==
    IF texts = << >> THEN << >>
    ELSE LET rest == SortTexts(SubSeq(texts, 1, Len(texts) - 1))
             last == texts[Len(texts)]
         IN  SelectSeq(rest, LAMBDA e : ~TextBefore(last, e)) \o <<last>>
             \o SelectSeq(rest, LAMBDA e : TextBefore(last, e))

\* Faulty variant of CombinedText: the sole candidate is used as it is.
CombinedTextVerbatim(uniqueTexts) ==
    IF Len(uniqueTexts) = 1 THEN uniqueTexts[1].text
    ELSE IF Len(uniqueTexts) > 1
    THEN Chars("=== MULTIPLE PROMPTS FOUND ===\n\n")
         \o Concat([i \in 1..Len(uniqueTexts) |->
                Chars(NumStr(i)) \o Chars(". ") \o uniqueTexts[i].label \o Chars(" (")
                \o uniqueTexts[i].source \o Chars("):\n")
                \o cleanPromptText(uniqueTexts[i].text) \o Chars("\n\n")])
         \o Chars("=== END OF PROMPTS ===\n\n")
         \o Chars("PRIMARY PROMPT:\n") \o cleanPromptText(uniqueTexts[1].text)
    ELSE << >>

\* Lines 415-432: combinedPrompt.
CombinedText(uniqueTexts) ==
    IF Len(uniqueTexts) = 1 THEN cleanPromptText(uniqueTexts[1].text)
    ELSE IF Len(uniqueTexts) > 1
    THEN Chars("=== MULTIPLE PROMPTS FOUND ===\n\n")
         \o Concat([i \in 1..Len(uniqueTexts) |->
                Chars(NumStr(i)) \o Chars(". ") \o uniqueTexts[i].label \o Chars(" (")
                \o uniqueTexts[i].source \o Chars("):\n")
                \o cleanPromptText(uniqueTexts[i].text) \o Chars("\n\n")])
         \o Chars("=== END OF PROMPTS ===\n\n")
         \o Chars("PRIMARY PROMPT:\n") \o cleanPromptText(uniqueTexts[1].text)
    ELSE << >>

\* workflowData.nodes && Array.isArray(workflowData.nodes): the nodes.
NodesOf(workflowData) ==
    IF Get(workflowData, "nodes").t = "arr" THEN Get(workflowData, "nodes").a ELSE << >>

\* Reading workflowData.nodes or node.type throws a TypeError.
MiningThrows(workflowData) ==
    \/ PropThrows(workflowData)
    \/ \E i \in 1..Len(NodesOf(workflowData)) : PropThrows(NodesOf(workflowData)[i])

\* The default text that marks a prompt field as not edited.
PlaceholderText == Chars("aidma-niji, niji, anime style")

\* Lines 288-291: the field is left alone.
PromptGuard(value) == value # << >> /\ ~Includes(value, PlaceholderText)

\* Faulty variant of PromptGuard: any field value is replaced.
PromptGuardOff(value) == FALSE

\* Lines 285-438. value is promptTextarea.value; the result is its new
\* value and whether a TypeError left the function. uniqueTexts and
\* combinedPrompt are bound to their values as the code's variables are.
extractTextFromWorkflow(value, workflowData) ==
    IF PromptGuard(value) THEN [threw |-> FALSE, value |-> value]
    ELSE IF MiningThrows(workflowData) THEN [threw |-> TRUE, value |-> value]
    ELSE CHOOSE result \in
            { [threw |-> FALSE,
               value |-> IF combinedPrompt # << >> THEN combinedPrompt ELSE value] :
              combinedPrompt \in
                { CombinedText(uniqueTexts) :
                    uniqueTexts \in
                      { SortTexts(UniqueTexts(CandidateTexts(NodesOf(workflowData)), << >>)) } } } :
            TRUE

\* Lines 203-228: the first widget value of a node of the given type.
LoaderNames(node, nodeType, type, priority) ==
    IF /\ TypeIs(node, nodeType)
       /\ Len(WidgetValues(node)) > 0
       /\ WidgetValues(node)[1].t = "str"
       /\ StrLen(WidgetValues(node)[1].s) > 0
    THEN << [name |-> WidgetValues(node)[1].s, type |-> type, priority |-> priority] >>
    ELSE << >>

\* Line 236: the value names a model file.
IsModelFile(value) ==
    /\ value.t = "str"
    /\ StrLen(value.s) > 0
    /\ \/ Includes(value.s, Chars(".safetensors"))
       \/ Includes(value.s, Chars(".ckpt"))
       \/ Includes(value.s, Chars(".pt"))

\* Lines 231-232: the node is taken for another model loader.
IsOtherLoader(node) ==
    /\ TypeIncludes(node, "Loader") \/ TypeIncludes(node, "Model")
    /\ ~TypeIs(node, "ControlNetLoader")
    /\ ~TypeIs(node, "VAELoader")

\* Lines 231-245: every widget value of a loader node that names a file.
OtherLoaderNames(node) ==
    IF IsOtherLoader(node)
    THEN LET files == SelectSeq(WidgetValues(node), IsModelFile)
         IN  [i \in 1..Len(files) |-> [name |-> files[i].s, type |-> "Model", priority |-> 3]]
    ELSE << >>

\* Lines 199-247: modelNames, in the order the entries are pushed.
ModelNames(nodes) ==
    Concat([i \in 1..Len(nodes) |->
              LoaderNames(nodes[i], "CheckpointLoaderSimple", "Checkpoint", 1)
              \o LoaderNames(nodes[i], "LoraLoader", "LoRA", 2)
              \o OtherLoaderNames(nodes[i])])

\* Line 252: a stable sort by priority.
SortModels(modelNames) ==
    SelectSeq(modelNames, LAMBDA m : m.priority = 1)
    \o SelectSeq(modelNames, LAMBDA m : m.priority = 2)
    \o SelectSeq(modelNames, LAMBDA m : m.priority = 3)

\* Lines 269, 274: ' + 2 LoRAs', ' + 1 additional model'; nothing for 0.
CountSuffix(count, noun) ==
    IF count = 0 THEN << >>
    ELSE Chars(" + ") \o Chars(NumStr(count)) \o Chars(" ") \o Chars(noun)
         \o (IF count > 1 THEN Chars("s") ELSE << >>)

\* Lines 254-276: modelText of the sorted, non-empty modelNames.
ModelText(modelNames) ==
    IF Len(modelNames) = 1 THEN cleanModelName(modelNames[1].name)
    ELSE cleanModelName(modelNames[1].name)
         \o CountSuffix(Len(SelectSeq(Tail(modelNames), LAMBDA m : m.type = "LoRA")), "LoRA")
         \o CountSuffix(Len(SelectSeq(Tail(modelNames), LAMBDA m : m.type # "LoRA")),
                        "additional model")

\* Lines 191-194: the field is left alone.
ModelGuard(value) == value # << >> /\ Trim(value) # << >>

\* Lines 188-282. value is modelInput.value; the result is its new value
\* and whether a TypeError left the function. modelNames is bound to its
\* value as the code's variable is.
extractModelFromWorkflow(value, workflowData) ==
    IF ModelGuard(value) THEN [threw |-> FALSE, value |-> value]
    ELSE IF MiningThrows(workflowData) THEN [threw |-> TRUE, value |-> value]
    ELSE CHOOSE result \in
            { [threw |-> FALSE,
               value |-> IF Len(modelNames) > 0 THEN ModelText(modelNames) ELSE value] :
              modelNames \in { SortModels(ModelNames(NodesOf(workflowData))) } } :
            TRUE

(***************************************************************************)
(* modal.js: the detail view of one stored item                            *)
(*                                                                         *)
(* item is the stored record, promptField and modelField are the values of *)
(* the form fields imagePrompt and imageModel.                             *)
(***************************************************************************)
\* A workflow node with a type and widget values.
Node(type, values) ==
    Obj(<< <<"type", Str(Chars(type))>>, <<"widgets_values", Arr(values)>> >>)

MaxMiningNodes == 2

PromptNodePool ==
    { Node("CLIPTextEncode", << Str(Chars("a cat sitting on a mat, 4k")) >>),
      Node("CLIPTextEncode", << Str(Chars("a dog  on a log, steps: 20")), Num(1) >>),
      Node("ShowText|pysssss", << Arr(<< Str(Chars("a cat sitting on a mat")) >>) >>),
      Node("CLIPTextEncode", << Str(Chars("embedding:EasyNegative")) >>),
      Node("my prompt node",
           << Str(Chars("aidma-niji, niji, anime style, sharp image a fox in a box")) >>),
      Null }

ModelNodePool ==
    { Node("CheckpointLoaderSimple", << Str(Chars("sd_xl_base.safetensors")) >>),
      Node("CheckpointLoaderSimple", << Str(Chars("dreamshaper")) >>),
      Node("LoraLoader", << Str(Chars("loras/SDXL/my_lora_v2.safetensors")), Num(1) >>),
      Node("UNETLoader", << Str(Chars("flux_dev.ckpt")), Str(Chars("default")) >>),
      Node("VAELoader", << Str(Chars("vae.pt")) >>) }

\* The stored metadata.workflow texts: workflows of up to MaxMiningNodes
\* nodes, a workflow with a replace node, a workflow whose processed text
\* comes after the encoders it was fed to, JSON without nodes, text that is
\* not JSON, and none.
WorkflowTexts ==
    { JsonText(Obj(<< <<"nodes", Arr(nodes)>> >>)) :
        nodes \in SeqUpTo(PromptNodePool, MaxMiningNodes) \cup SeqUpTo(ModelNodePool, MaxMiningNodes) }
    \cup { JsonText(Obj(<< <<"nodes", Arr(<<
                Node("Text Find and Replace",
                     << Str(Chars("a cat sitting on a mat, 4k")),
                        Str(Chars("a bird in a tree, 8k, hd")) >>),
                Node("CheckpointLoaderSimple", << Str(Chars("sd_xl_base.safetensors")) >>) >>)>> >>)),
           JsonText(Obj(<< <<"nodes", Arr(<<
                Node("CLIPTextEncode", << Str(Chars("a cat sitting on a mat, 4k")) >>),
                Node("CLIPTextEncode", << Str(Chars("a dog  on a log, steps: 20")), Num(1) >>),
                Node("ShowText|pysssss", << Arr(<< Str(Chars("a cat sitting on a mat")) >>) >>) >>)>> >>)),
           JsonText(Null), JsonText(Obj(<< <<"id", Num(1)>> >>)),
           RawText(<<"{">>), Absent }

UserPrompts == { Chars("my cat"), Chars("my cat, aidma-niji, niji, anime style") }
UserModels  == { Chars(" "), Chars("my model") }

\* metadata.js lines 6-158, as far as the two form fields go: the values
\* of the fields after displayOrganizedMetadata(item.metadata, isVideo).
displayOrganizedMetadata(it) ==
    LET unchanged == [prompt |-> it.prompt, model |-> it.model]
    IN  IF it.mediaType = "video" THEN unchanged
        ELSE IF it.workflow = Absent \/ ~HasChunk([workflow |-> it.workflow], "workflow")
        THEN unchanged
        ELSE IF ~JSONParse(it.workflow).ok THEN unchanged
        ELSE CHOOSE fields \in
                { IF text.threw THEN unchanged
                  ELSE [prompt |-> text.value,
                        model |-> extractModelFromWorkflow(it.model, it.workflow.value).value] :
                  text \in { extractTextFromWorkflow(it.prompt, it.workflow.value) } } :
                TRUE

InitModal ==
    /\ item \in [prompt : {<< >>, PlaceholderText}, model : {<< >>},
                 workflow : WorkflowTexts, mediaType : {"image"}]
             \cup [prompt : {<< >>}, model : {<< >>},
                   workflow : {JsonText(Obj(<< <<"nodes", Arr(<<
                       Node("CheckpointLoaderSimple", << Str(Chars("sd_xl_base.safetensors")) >>) >>)>> >>))},
                   mediaType : {"video"}]
    /\ promptField = << >>
    /\ modelField = << >>
    /\ modalPc = "closed"

\* openImageModal: the fields take the stored values (lines 64-68), then
\* the metadata is displayed (line 79).
OpenImageModal ==
    /\ modalPc = "closed"
    /\ \E fields \in {displayOrganizedMetadata(item)} :
          /\ promptField' = fields.prompt
          /\ modelField' = fields.model
    /\ modalPc' = "open"
    /\ UNCHANGED item

\* The user types into the prompt field.
EditPrompt ==
    /\ modalPc # "closed"
    /\ \E v \in UserPrompts : promptField' = v
    /\ modalPc' = "edited"
    /\ UNCHANGED <<item, modelField>>

\* The user types into the model field.
EditModel ==
    /\ modalPc # "closed"
    /\ \E v \in UserModels : modelField' = v
    /\ modalPc' = "edited"
    /\ UNCHANGED <<item, promptField>>

\* saveImageMetadata, database.updateMedia succeeds: the record takes the
\* values of the fields.
SaveImageMetadata ==
    /\ modalPc # "closed"
    /\ item' = [item EXCEPT !.prompt = promptField, !.model = modelField]
    /\ modalPc' = "saved"
    /\ UNCHANGED <<promptField, modelField>>

\* saveImageMetadata, database.updateMedia throws: lines 354-357.
SaveImageMetadataFails ==
    /\ modalPc # "closed"
    /\ modalPc' = "saveFailed"
    /\ UNCHANGED <<item, promptField, modelField>>

\* closeModal
CloseModal ==
    /\ modalPc # "closed"
    /\ modalPc' = "closed"
    /\ UNCHANGED <<item, promptField, modelField>>

NextModal ==
    \/ OpenImageModal /\ UNCHANGED <<pngVars, cleanVars, parserVars, thumbVars, nameVars, storeVars, twiceVars, serverVars, deleteVars, miniVars, searchVars, migrateVars, backupVars>>
    \/ EditPrompt /\ UNCHANGED <<pngVars, cleanVars, parserVars, thumbVars, nameVars, storeVars, twiceVars, serverVars, deleteVars, miniVars, searchVars, migrateVars, backupVars>>
    \/ EditModel /\ UNCHANGED <<pngVars, cleanVars, parserVars, thumbVars, nameVars, storeVars, twiceVars, serverVars, deleteVars, miniVars, searchVars, migrateVars, backupVars>>
    \/ SaveImageMetadata /\ UNCHANGED <<pngVars, cleanVars, parserVars, thumbVars, nameVars, storeVars, twiceVars, serverVars, deleteVars, miniVars, searchVars, migrateVars, backupVars>>
    \/ SaveImageMetadataFails /\ UNCHANGED <<pngVars, cleanVars, parserVars, thumbVars, nameVars, storeVars, twiceVars, serverVars, deleteVars, miniVars, searchVars, migrateVars, backupVars>>
    \/ CloseModal /\ UNCHANGED <<pngVars, cleanVars, parserVars, thumbVars, nameVars, storeVars, twiceVars, serverVars, deleteVars, miniVars, searchVars, migrateVars, backupVars>>

(***************************************************************************)
(* thumbnailGenerator.js: thumbnails of the stored items                   *)
(*                                                                         *)
(* rows is the media table of database.js, a row's id its index. A data    *)
(* URL is the empty string, an image of some size, or data no decoder      *)
(* accepts. updateFails tells whether the UPDATE statement of the row      *)
(* throws.                                                                 *)
(***************************************************************************)
EmptyData   == [kind |-> "empty"]
CorruptData == [kind |-> "corrupt"]
ImageData(width, height) == [kind |-> "image", width |-> width, height |-> height]

\* value || fallback, for a data URL.
HasData(data) == data.kind # "empty"

\* Lines 75-128: what the promise of generateThumbnailWithPosition settles
\* to. img.onload fires for an image and resolves with the drawn crop,
\* img.onerror fires for anything else and rejects.
ThumbnailPromise(imageDataUrl, position, targetWidth, targetHeight) ==
    IF imageDataUrl.kind = "image"
    THEN [settled |-> "resolved",
          value |-> [kind |-> "thumb",
                     crop |-> CropRect(imageDataUrl, position, targetWidth, targetHeight)]]
    ELSE [settled |-> "rejected"]

\* database.js lines 243-279: the item of a row.
convertSQLiteToExpected(id, row) ==
    [id |-> id,
     mediaType |-> row.media_type,
     imageData |-> row.image_data,
     thumbnailData |-> IF HasData(row.thumbnail_data) THEN row.thumbnail_data
                       ELSE row.image_data,
     thumbnailPosition |->
         [x |-> IF row.thumbnail_position_x = 0 THEN 50 ELSE row.thumbnail_position_x,
          y |-> IF row.thumbnail_position_y = 0 THEN 25 ELSE row.thumbnail_position_y]]

\* database.js lines 296-309.
loadAllMedia(table) == [id \in 1..Len(table) |-> convertSQLiteToExpected(id, table[id])]

\* database.js lines 352-395, for the keys thumbnailData and
\* thumbnailPosition.
updateMedia(table, id, thumbnailData, thumbnailPosition) ==
    [table EXCEPT ![id] =
        [@ EXCEPT !.thumbnail_data = thumbnailData,
                  !.thumbnail_position_x = IF thumbnailPosition.x = 0 THEN 50
                                            ELSE thumbnailPosition.x,
                  !.thumbnail_position_y = IF thumbnailPosition.y = 0 THEN 25
                                            ELSE thumbnailPosition.y]]

MaxRows == 2

RowSet ==
    [media_type : {"image", "video"},
     image_data : {EmptyData, CorruptData, ImageData(3, 1)},
     thumbnail_data : {EmptyData, ThumbnailPromise(ImageData(1, 1), [x |-> 50, y |-> 25], 600, 400).value},
     thumbnail_position_x : {50},
     thumbnail_position_y : {25},
     updateFails : BOOLEAN]

NewPositions == {[x |-> 0, y |-> 0], [x |-> 100, y |-> 50]}

InitStore ==
    /\ rows \in SeqUpTo(RowSet, MaxRows)
    /\ maint = [op |-> "none"]
    /\ maintPc = "idle"

\* Lines 150, 157: skipped++
CountSkipped(m) == [m EXCEPT !.skipped = @ + 1]

\* Line 179: processed++
CountProcessed(m) == [m EXCEPT !.processed = @ + 1]

\* Faulty variant of CountError: the failure is not counted.
CountErrorNot(m) == m

\* Lines 194-197, the catch block of one item: errors++
CountError(m) == [m EXCEPT !.errors = @ + 1]

\* Line 145: i++
NextItem(m) == [m EXCEPT !.i = @ + 1]

\* Lines 140-143: loadAllMedia has resolved, the loop is about to start.
StartBatch ==
    /\ maintPc = "idle"
    /\ \E forceRegenerate \in BOOLEAN, progressCallback \in {"none", "reports", "throws"} :
          maint' = [op |-> "batch", force |-> forceRegenerate, progress |-> progressCallback,
                    allMedia |-> loadAllMedia(rows),
                    i |-> 0, processed |-> 0, skipped |-> 0, errors |-> 0]
    /\ maintPc' = "batch"
    /\ UNCHANGED rows

\* Lines 140, 213-217: loadAllMedia rejects, the error is thrown on.
LoadAllMediaFails ==
    /\ maintPc = "idle"
    /\ maintPc' = "batchThrew"
    /\ UNCHANGED <<rows, maint>>

\* Lines 145-197: one iteration of the loop.
BatchItem ==
    /\ maintPc = "batch"
    /\ maint.i < Len(maint.allMedia)
    /\ \E it \in {maint.allMedia[maint.i + 1]} :
          IF it.mediaType = "video" \/ (HasData(it.thumbnailData) /\ ~maint.force)
          THEN /\ maint' = NextItem(CountSkipped(maint))
               /\ UNCHANGED rows
          ELSE \E promise \in {ThumbnailPromise(it.imageData, it.thumbnailPosition, 600, 400)} :
                  IF promise.settled = "rejected" \/ rows[it.id].updateFails
                  THEN /\ maint' = NextItem(CountError(maint))
                       /\ UNCHANGED rows
                  ELSE /\ rows' = updateMedia(rows, it.id, promise.value, it.thumbnailPosition)
                       /\ maint' = IF maint.progress = "throws"
                                   THEN NextItem(CountError(CountProcessed(maint)))
                                   ELSE NextItem(CountProcessed(maint))
    /\ UNCHANGED maintPc

\* Lines 199-212: the loop is over, the results are returned.
BatchReturn ==
    /\ maintPc = "batch"
    /\ maint.i = Len(maint.allMedia)
    /\ maint' = [op |-> "batch", force |-> maint.force, progress |-> maint.progress,
                 allMedia |-> maint.allMedia, i |-> maint.i,
                 processed |-> maint.processed, skipped |-> maint.skipped,
                 errors |-> maint.errors,
                 results |-> [processed |-> maint.processed, skipped |-> maint.skipped,
                              errors |-> maint.errors, total |-> Len(maint.allMedia)]]
    /\ maintPc' = "batchReturned"
    /\ UNCHANGED rows

\* Faulty variant of RegenerateOutcome: a thumbnail that cannot be made is
\* replaced by an empty one.
RegenerateOutcomeBlank(table, itemId, newPosition) ==
    IF itemId > Len(table) THEN [pc |-> "regenThrew", rows |-> table]
    ELSE IF table[itemId].media_type = "video"
    THEN [pc |-> "regenReturnedFalse", rows |-> table]
    ELSE LET promise == ThumbnailPromise(convertSQLiteToExpected(itemId, table[itemId]).imageData,
                                         newPosition, 600, 400)
         IN  IF promise.settled = "rejected"
             THEN [pc |-> "regenThrew", rows |-> updateMedia(table, itemId, EmptyData, newPosition)]
             ELSE IF table[itemId].updateFails THEN [pc |-> "regenThrew", rows |-> table]
             ELSE [pc |-> "regenReturnedTrue",
                   rows |-> updateMedia(table, itemId, promise.value, newPosition)]

\* Lines 226-260: how regenerateThumbnailForItem ends and the table it
\* leaves.
RegenerateOutcome(table, itemId, newPosition) ==
    IF itemId > Len(table) THEN [pc |-> "regenThrew", rows |-> table]
    ELSE IF table[itemId].media_type = "video"
    THEN [pc |-> "regenReturnedFalse", rows |-> table]
    ELSE LET promise == ThumbnailPromise(convertSQLiteToExpected(itemId, table[itemId]).imageData,
                                         newPosition, 600, 400)
         IN  IF promise.settled = "rejected" \/ table[itemId].updateFails
             THEN [pc |-> "regenThrew", rows |-> table]
             ELSE [pc |-> "regenReturnedTrue",
                   rows |-> updateMedia(table, itemId, promise.value, newPosition)]

\* regenerateThumbnailForItem(itemId, newPosition)
RegenerateThumbnailForItem ==
    /\ maintPc = "idle"
    /\ \E itemId \in 1..(Len(rows) + 1), newPosition \in NewPositions :
          \E outcome \in {RegenerateOutcome(rows, itemId, newPosition)} :
              /\ maint' = [op |-> "regenerate", itemId |-> itemId, newPosition |-> newPosition]
              /\ maintPc' = outcome.pc
              /\ rows' = outcome.rows

NextStore ==
    \/ StartBatch /\ UNCHANGED <<pngVars, cleanVars, parserVars, thumbVars, modalVars, nameVars, twiceVars, serverVars, deleteVars, miniVars, searchVars, migrateVars, backupVars>>
    \/ LoadAllMediaFails /\ UNCHANGED <<pngVars, cleanVars, parserVars, thumbVars, modalVars, nameVars, twiceVars, serverVars, deleteVars, miniVars, searchVars, migrateVars, backupVars>>
    \/ BatchItem /\ UNCHANGED <<pngVars, cleanVars, parserVars, thumbVars, modalVars, nameVars, twiceVars, serverVars, deleteVars, miniVars, searchVars, migrateVars, backupVars>>
    \/ BatchReturn /\ UNCHANGED <<pngVars, cleanVars, parserVars, thumbVars, modalVars, nameVars, twiceVars, serverVars, deleteVars, miniVars, searchVars, migrateVars, backupVars>>
    \/ RegenerateThumbnailForItem /\ UNCHANGED <<pngVars, cleanVars, parserVars, thumbVars, modalVars, nameVars, twiceVars, serverVars, deleteVars, miniVars, searchVars, migrateVars, backupVars>>

(***************************************************************************)
(* A parser called twice with the same chunks                              *)
(*                                                                         *)
(* clock is the date new Date().toLocaleDateString() gives at the time of  *)
(* a call.                                                                 *)
(***************************************************************************)
\* extractComfyUIInfo(chunks) or extractChatGPTInfo(chunks), called on the
\* day today.
ExtractInfo(call, today) ==
    IF call.parser = "comfyui" THEN extractComfyUIInfo(call.chunks, today).info
    ELSE extractChatGPTInfo(call.chunks).info

InitTwice ==
    /\ twiceIn \in { [parser |-> "comfyui", chunks |-> i.chunks] : i \in ComfyInputs }
                   \cup { [parser |-> "chatgpt", chunks |-> i.chunks] : i \in ChatGPTInputs }
    /\ clock \in Dates
    /\ firstOut = << >>
    /\ secondOut = << >>
    /\ twicePc = "ready"

\* The first call returns.
FirstCall ==
    /\ twicePc = "ready"
    /\ firstOut' = ExtractInfo(twiceIn, clock)
    /\ twicePc' = "once"
    /\ UNCHANGED <<twiceIn, clock, secondOut>>

\* Time passes between the calls.
DayPasses ==
    /\ twicePc = "once"
    /\ \E d \in Dates \ {clock} : clock' = d
    /\ UNCHANGED <<twiceIn, firstOut, secondOut, twicePc>>

\* The second call returns.
SecondCall ==
    /\ twicePc = "once"
    /\ secondOut' = ExtractInfo(twiceIn, clock)
    /\ twicePc' = "twice"
    /\ UNCHANGED <<twiceIn, clock, firstOut>>

NextTwice ==
    \/ FirstCall /\ UNCHANGED <<pngVars, cleanVars, parserVars, thumbVars, modalVars, nameVars, storeVars, serverVars, deleteVars, miniVars, searchVars, migrateVars, backupVars>>
    \/ DayPasses /\ UNCHANGED <<pngVars, cleanVars, parserVars, thumbVars, modalVars, nameVars, storeVars, serverVars, deleteVars, miniVars, searchVars, migrateVars, backupVars>>
    \/ SecondCall /\ UNCHANGED <<pngVars, cleanVars, parserVars, thumbVars, modalVars, nameVars, storeVars, serverVars, deleteVars, miniVars, searchVars, migrateVars, backupVars>>

(***************************************************************************)
(* server.js: DELETE /delete/:relativePath                                 *)
(*                                                                         *)
(* A path is a sequence of segments; its string is what path.join and      *)
(* path.resolve return and what startsWith compares. disk is the set of    *)
(* the files that exist.                                                   *)
(***************************************************************************)
\* __dirname, the project directory /srv/app.
ProjectRoot == <<"srv", "app">>

\* The directories of the machine.
Directories ==
    { << >>, <<"srv">>, <<"srv", "app">>, <<"srv", "app", "images">>, <<"srv", "app-backup">> }

\* The files of the machine when the server starts.
FilesAtStart ==
    { <<"srv", "app", "images", "a.png">>, <<"srv", "app", "server.js">>,
      <<"srv", "app-backup", "a.png">>, <<"srv", "a.png">> }

MaxSegments == 3

\* req.params.relativePath, split at the slashes.
RelativePaths == SeqUpTo({"..", "images", "a.png", "app-backup", "server.js"}, MaxSegments)

RECURSIVE Normalize(_, _)
\* path.join / path.resolve: '..' steps out of the directory reached so
\* far, and stays at the root when there is nothing to step out of.
Normalize(segments, reached) ==
    IF segments = << >> THEN reached
    ELSE IF Head(segments) = "."
    THEN Normalize(Tail(segments), reached)
    ELSE IF Head(segments) = ".."
    THEN Normalize(Tail(segments),
                   IF reached = << >> THEN << >> ELSE SubSeq(reached, 1, Len(reached) - 1))
    ELSE Normalize(Tail(segments), Append(reached, Head(segments)))

\* The string of an absolute path.
PathString(segments) ==
    IF segments = << >> THEN Chars("/")
    ELSE Concat([i \in 1..Len(segments) |-> Chars("/") \o Chars(segments[i])])

\* Lines 132, 135: path.resolve(path.join(__dirname, relativePath))
ResolvedPath(relativePath) == Normalize(ProjectRoot \o relativePath, << >>)

\* String.prototype.startsWith
StartsWith(str, prefix) ==
    Len(prefix) <= Len(str) /\ SubSeq(str, 1, Len(prefix)) = prefix

\* Line 138: resolvedPath.startsWith(projectRoot)
PathAccepted(resolvedPath) ==
    StartsWith(PathString(resolvedPath), PathString(Normalize(ProjectRoot, << >>)))

\* Line 143: fs.existsSync
ExistsSync(resolvedPath) == resolvedPath \in disk \/ resolvedPath \in Directories

InitServer ==
    /\ disk = FilesAtStart
    /\ delReq = << >>
    /\ delRes = [status |-> 0]
    /\ serverPc = "idle"

\* A DELETE request arrives.
ReceiveDelete ==
    /\ serverPc \in {"idle", "responded"}
    /\ \E relativePath \in RelativePaths : delReq' = relativePath
    /\ delRes' = [status |-> 0]
    /\ serverPc' = "received"
    /\ UNCHANGED disk

\* Lines 138-140: the path is refused.
RejectPath ==
    /\ serverPc = "received"
    /\ ~PathAccepted(ResolvedPath(delReq))
    /\ delRes' = [status |-> 400]
    /\ serverPc' = "responded"
    /\ UNCHANGED <<disk, delReq>>

\* Lines 143-145: there is nothing at the path.
FileNotFound ==
    /\ serverPc = "received"
    /\ PathAccepted(ResolvedPath(delReq))
    /\ ~ExistsSync(ResolvedPath(delReq))
    /\ delRes' = [status |-> 404]
    /\ serverPc' = "responded"
    /\ UNCHANGED <<disk, delReq>>

\* Lines 148-151: the file is unlinked.
UnlinkFile ==
    /\ serverPc = "received"
    /\ PathAccepted(ResolvedPath(delReq))
    /\ ResolvedPath(delReq) \in disk
    /\ disk' = disk \ {ResolvedPath(delReq)}
    /\ delRes' = [status |-> 200]
    /\ serverPc' = "responded"
    /\ UNCHANGED delReq

\* Lines 148, 153-156: unlinkSync throws on a directory.
UnlinkThrows ==
    /\ serverPc = "received"
    /\ PathAccepted(ResolvedPath(delReq))
    /\ ResolvedPath(delReq) \notin disk
    /\ ResolvedPath(delReq) \in Directories
    /\ delRes' = [status |-> 500]
    /\ serverPc' = "responded"
    /\ UNCHANGED <<disk, delReq>>

NextServer ==
    \/ ReceiveDelete /\ UNCHANGED <<pngVars, cleanVars, parserVars, thumbVars, modalVars, nameVars, storeVars, twiceVars, deleteVars, miniVars, searchVars, migrateVars, backupVars>>
    \/ RejectPath /\ UNCHANGED <<pngVars, cleanVars, parserVars, thumbVars, modalVars, nameVars, storeVars, twiceVars, deleteVars, miniVars, searchVars, migrateVars, backupVars>>
    \/ FileNotFound /\ UNCHANGED <<pngVars, cleanVars, parserVars, thumbVars, modalVars, nameVars, storeVars, twiceVars, deleteVars, miniVars, searchVars, migrateVars, backupVars>>
    \/ UnlinkFile /\ UNCHANGED <<pngVars, cleanVars, parserVars, thumbVars, modalVars, nameVars, storeVars, twiceVars, deleteVars, miniVars, searchVars, migrateVars, backupVars>>
    \/ UnlinkThrows /\ UNCHANGED <<pngVars, cleanVars, parserVars, thumbVars, modalVars, nameVars, storeVars, twiceVars, deleteVars, miniVars, searchVars, migrateVars, backupVars>>

(***************************************************************************)
(* modal.js: deleteCurrentImage and the events that run while it waits     *)
(*                                                                         *)
(* mediaTable maps the ids of the stored records to the records, serverDir *)
(* is the set of the uploaded files the server holds (a file is named by   *)
(* the id of the record it was uploaded for), currentImageId and           *)
(* currentImageData are the module variables of lines 8-9, and deletion    *)
(* is the position of the one call of deleteCurrentImage under way.        *)
(***************************************************************************)
MaxItems == 2

\* Line 8: currentImageId = null. Record ids start at 1.
NullId == 0

\* Line 9: currentImageData = null
NullData == [id |-> NullId, mediaType |-> "none", serverPath |-> NullId]

\* The stored records: every one has an id and a media type, and the id of
\* its uploaded file as server path if it has one.
StoredItems(id) ==
    [id : {id}, mediaType : {"image", "video"}, serverPath : {NullId, id}]

InitDelete ==
    /\ mediaTable \in { t \in [1..MaxItems -> UNION {StoredItems(id) : id \in 1..MaxItems}] :
                          \A id \in 1..MaxItems : t[id].id = id }
    /\ serverDir = { mediaTable[id].serverPath : id \in 1..MaxItems } \ {NullId}
    /\ currentImageId = NullId
    /\ currentImageData = NullData
    /\ deletion = [pc |-> "none"]

\* gallery.js line 27, modal.js lines 12-14: a card of the gallery is
\* clicked; the gallery lies behind the modal.
OpenImageModalOnItem ==
    /\ currentImageId = NullId
    /\ \E id \in DOMAIN mediaTable :
          /\ currentImageId' = id
          /\ currentImageData' = mediaTable[id]
    /\ UNCHANGED <<mediaTable, serverDir, deletion>>

\* Lines 650-692, called from the handlers of lines 699-720: the Escape
\* key, a click on the background or on the close button.
CloseModalOnItem ==
    /\ currentImageId # NullId
    /\ currentImageId' = NullId
    /\ currentImageData' = NullData
    /\ UNCHANGED <<mediaTable, serverDir, deletion>>

\* Lines 476-481: Delete is clicked and the user answers no.
DeleteDeclined ==
    /\ deletion.pc \in {"none", "declined", "done"}
    /\ currentImageId # NullId
    /\ deletion' = [pc |-> "declined"]
    /\ UNCHANGED <<mediaTable, serverDir, currentImageId, currentImageData>>

\* Lines 476-515: Delete is clicked, the user answers yes, the item has a
\* server path and the request to delete the file is sent.
DeleteConfirmedWithFile ==
    /\ deletion.pc \in {"none", "declined", "done"}
    /\ currentImageId # NullId
    /\ currentImageData.serverPath # NullId
    /\ deletion' = [pc |-> "fetching", confirmed |-> currentImageId,
                    path |-> currentImageData.serverPath]
    /\ UNCHANGED <<mediaTable, serverDir, currentImageId, currentImageData>>

\* Lines 476-534: the same for an item without server path; deleteMedia is
\* called at once.
DeleteConfirmedWithoutFile ==
    /\ deletion.pc \in {"none", "declined", "done"}
    /\ currentImageId # NullId
    /\ currentImageData.serverPath = NullId
    /\ deletion' = [pc |-> "deleting", confirmed |-> currentImageId,
                    target |-> currentImageId]
    /\ UNCHANGED <<mediaTable, serverDir, currentImageId, currentImageData>>

\* Lines 516-534: the server has answered (the file is gone, or the request
\* failed), and database.deleteMedia(currentImageId) is called.
ServerDeleteAnswers ==
    /\ deletion.pc = "fetching"
    /\ \E fileDeleted \in BOOLEAN :
          serverDir' = IF fileDeleted THEN serverDir \ {deletion.path} ELSE serverDir
    /\ deletion' = [pc |-> "deleting", confirmed |-> deletion.confirmed,
                    target |-> currentImageId]
    /\ UNCHANGED <<mediaTable, currentImageId, currentImageData>>

\* database.js lines 401-410: DELETE FROM media WHERE id = ?
deleteMedia(records, id) ==
    [k \in DOMAIN records \ {id} |-> records[k]]

\* Lines 534-538: the record is deleted and the modal closed.
DatabaseDeleteDone ==
    /\ deletion.pc = "deleting"
    /\ mediaTable' = deleteMedia(mediaTable, deletion.target)
    /\ currentImageId' = NullId
    /\ currentImageData' = NullData
    /\ deletion' = [pc |-> "done", confirmed |-> deletion.confirmed,
                    target |-> deletion.target]
    /\ UNCHANGED serverDir

NextDelete ==
    \/ OpenImageModalOnItem /\ UNCHANGED <<pngVars, cleanVars, parserVars, thumbVars, modalVars, nameVars, storeVars, twiceVars, serverVars, miniVars, searchVars, migrateVars, backupVars>>
    \/ CloseModalOnItem /\ UNCHANGED <<pngVars, cleanVars, parserVars, thumbVars, modalVars, nameVars, storeVars, twiceVars, serverVars, miniVars, searchVars, migrateVars, backupVars>>
    \/ DeleteDeclined /\ UNCHANGED <<pngVars, cleanVars, parserVars, thumbVars, modalVars, nameVars, storeVars, twiceVars, serverVars, miniVars, searchVars, migrateVars, backupVars>>
    \/ DeleteConfirmedWithFile /\ UNCHANGED <<pngVars, cleanVars, parserVars, thumbVars, modalVars, nameVars, storeVars, twiceVars, serverVars, miniVars, searchVars, migrateVars, backupVars>>
    \/ DeleteConfirmedWithoutFile /\ UNCHANGED <<pngVars, cleanVars, parserVars, thumbVars, modalVars, nameVars, storeVars, twiceVars, serverVars, miniVars, searchVars, migrateVars, backupVars>>
    \/ ServerDeleteAnswers /\ UNCHANGED <<pngVars, cleanVars, parserVars, thumbVars, modalVars, nameVars, storeVars, twiceVars, serverVars, miniVars, searchVars, migrateVars, backupVars>>
    \/ DatabaseDeleteDone /\ UNCHANGED <<pngVars, cleanVars, parserVars, thumbVars, modalVars, nameVars, storeVars, twiceVars, serverVars, miniVars, searchVars, migrateVars, backupVars>>

(***************************************************************************)
(* modal.js with the mini-gallery (minigallery.js)                         *)
(*                                                                         *)
(* modal.js keeps currentImageId and currentImageData, minigallery.js      *)
(* keeps variables of the same names, here miniImageId and miniImageData.  *)
(* miniThumbnails are the thumbnails of the strip, formTitle is the value  *)
(* of the field imageTitle. shownId (the item whose picture and fields the *)
(* modal shows) and saved (the last call of updateMedia by Save Changes)   *)
(* are ghosts. The records of a gallery change only by deletion: adding    *)
(* images to a gallery goes through mediaProcessor.js.                     *)
(***************************************************************************)
MaxGalleryItems == 2

\* The titles of the stored items.
TitleTexts == <<"first", "second", "third">>

\* The stored records of the server: item id is an image or a video,
\* standalone (gallery 0) or in the gallery 7.
GalleryItems(id) ==
    [id : {id}, mediaType : {"image", "video"}, galleryId : {0, 7},
     serverPath : {id}, title : {TitleTexts[id]}]

\* minigallery.js: currentImageData = null
NullItem == [id |-> NullId, mediaType |-> "none", galleryId |-> 0,
             serverPath |-> NullId, title |-> ""]

\* GET /api/media/gallery/:galleryId
getMediaByGalleryId(records, galleryId) ==
    { records[id] : id \in { k \in DOMAIN records : records[k].galleryId = galleryId } }

\* gallery.js lines 136-148: the cards of the gallery are the standalone
\* items and, of each gallery, the item with the lowest id.
DisplayedCards(records) ==
    { records[id] : id \in { k \in DOMAIN records :
        \/ records[k].galleryId = 0
        \/ \A other \in getMediaByGalleryId(records, records[k].galleryId) : k <= other.id } }

\* minigallery.js loadMiniGallery: the thumbnails of the strip for item.
loadMiniGallery(records, it) ==
    IF it.mediaType = "video" \/ it.galleryId = 0 THEN {}
    ELSE { img \in getMediaByGalleryId(records, it.galleryId) : img.mediaType = "image" }

\* Faulty variant of BlocksDeletion: the newest image is taken for the
\* main image.
BlocksDeletionOfNewest(galleryImageItems, activeImageId) ==
    /\ galleryImageItems # {}
    /\ \A img \in galleryImageItems : img.id <= activeImageId
    /\ Cardinality(galleryImageItems) > 1

\* modal.js lines 614-635: the active image is the image with the lowest
\* id of its gallery and the gallery holds other images.
BlocksDeletion(galleryImageItems, activeImageId) ==
    /\ galleryImageItems # {}
    /\ \A img \in galleryImageItems : activeImageId <= img.id
    /\ Cardinality(galleryImageItems) > 1

InitMini ==
    /\ mediaTable \in { t \in [1..MaxGalleryItems ->
                                 UNION {GalleryItems(id) : id \in 1..MaxGalleryItems}] :
                          \A id \in 1..MaxGalleryItems : t[id].id = id }
    /\ serverDir = 1..MaxGalleryItems
    /\ currentImageId = NullId
    /\ currentImageData = NullItem
    /\ deletion = [pc |-> "none"]
    /\ miniImageId = NullId
    /\ miniImageData = NullItem
    /\ miniThumbnails = {}
    /\ shownId = NullId
    /\ formTitle = ""
    /\ saved = [target |-> NullId, shown |-> NullId]

\* modal.js lines 13-133: a card of the gallery is clicked.
MiniOpenImageModal ==
    /\ currentImageId = NullId
    /\ \E it \in DisplayedCards(mediaTable) :
          /\ currentImageId' = it.id
          /\ currentImageData' = it
          /\ miniThumbnails' = loadMiniGallery(mediaTable, it)
          /\ formTitle' = it.title
          /\ shownId' = it.id
    /\ UNCHANGED <<mediaTable, serverDir, deletion, miniImageId, miniImageData, saved>>

\* minigallery.js switchToImage, from the click handler loadMiniGallery
\* gives a thumbnail.
SwitchToImage ==
    /\ currentImageId # NullId
    /\ \E img \in miniThumbnails :
          /\ miniImageId' = img.id
          /\ miniImageData' = img
          /\ formTitle' = img.title
          /\ shownId' = img.id
    /\ UNCHANGED <<mediaTable, serverDir, currentImageId, currentImageData, deletion,
                   miniThumbnails, saved>>

\* modal.js closeModal
MiniCloseModal ==
    /\ currentImageId # NullId
    /\ currentImageId' = NullId
    /\ currentImageData' = NullItem
    /\ shownId' = NullId
    /\ UNCHANGED <<mediaTable, serverDir, deletion, miniImageId, miniImageData,
                   miniThumbnails, formTitle, saved>>

\* The user types into the title field.
EditTitle ==
    /\ shownId # NullId
    /\ formTitle' = "edited"
    /\ UNCHANGED <<mediaTable, serverDir, currentImageId, currentImageData, deletion,
                   miniImageId, miniImageData, miniThumbnails, shownId, saved>>

\* modal.js saveImageMetadata: PUT /api/media/:id with the fields.
MiniSaveImageMetadata ==
    /\ shownId # NullId
    /\ currentImageId # NullId
    /\ mediaTable' = [id \in DOMAIN mediaTable |->
                        IF id = currentImageId
                        THEN [mediaTable[id] EXCEPT !.title = formTitle]
                        ELSE mediaTable[id]]
    /\ saved' = [target |-> currentImageId, shown |-> shownId]
    /\ UNCHANGED <<serverDir, currentImageId, currentImageData, deletion,
                   miniImageId, miniImageData, miniThumbnails, shownId, formTitle>>

\* deleteCurrentImage lines 574-582: Delete is clicked and minigallery.js
\* names no active image.
DeleteWithoutActiveImage ==
    /\ shownId # NullId
    /\ deletion.pc \notin {"checking", "fetching", "deleting"}
    /\ miniImageId = NullId
    /\ deletion' = [pc |-> "noActive", active |-> NullId, shown |-> shownId]
    /\ UNCHANGED <<mediaTable, serverDir, currentImageId, currentImageData,
                   miniImageId, miniImageData, miniThumbnails, shownId, formTitle, saved>>

\* Lines 574-599: Delete is clicked and the items of the gallery of the
\* active image are asked for. The active image is one of the strip of a
\* gallery, so the branch of lines 639-641 for a standalone item is never
\* taken.
DeleteAsksForGallery ==
    /\ shownId # NullId
    /\ deletion.pc \notin {"checking", "fetching", "deleting"}
    /\ miniImageId # NullId
    /\ miniImageData.galleryId > 0
    /\ deletion' = [pc |-> "checking", active |-> miniImageId, data |-> miniImageData,
                    shown |-> shownId]
    /\ UNCHANGED <<mediaTable, serverDir, currentImageId, currentImageData,
                   miniImageId, miniImageData, miniThumbnails, shownId, formTitle, saved>>

\* Lines 599-643: the items of the gallery have arrived and the main image
\* of a gallery with other images is refused.
DeletionBlocked ==
    /\ deletion.pc = "checking"
    /\ BlocksDeletion({ img \in getMediaByGalleryId(mediaTable, deletion.data.galleryId) :
                          img.mediaType = "image" }, deletion.active)
    /\ deletion' = [deletion EXCEPT !.pc = "blocked"]
    /\ UNCHANGED <<mediaTable, serverDir, currentImageId, currentImageData,
                   miniImageId, miniImageData, miniThumbnails, shownId, formTitle, saved>>

\* Lines 599-700: the deletion is allowed; the user answers yes and the
\* request to delete the file is sent, or answers no.
DeletionAllowed ==
    /\ deletion.pc = "checking"
    /\ ~BlocksDeletion({ img \in getMediaByGalleryId(mediaTable, deletion.data.galleryId) :
                           img.mediaType = "image" }, deletion.active)
    /\ \E answer \in {"fetching", "declined"} : deletion' = [deletion EXCEPT !.pc = answer]
    /\ UNCHANGED <<mediaTable, serverDir, currentImageId, currentImageData,
                   miniImageId, miniImageData, miniThumbnails, shownId, formTitle, saved>>

\* Lines 692-712: the server has answered the request to delete the file
\* and database.deleteMedia(activeImageId) is called.
MiniServerDeleteAnswers ==
    /\ deletion.pc = "fetching"
    /\ \E fileDeleted \in BOOLEAN :
          serverDir' = IF fileDeleted THEN serverDir \ {deletion.data.serverPath} ELSE serverDir
    /\ deletion' = [deletion EXCEPT !.pc = "deleting"]
    /\ UNCHANGED <<mediaTable, currentImageId, currentImageData,
                   miniImageId, miniImageData, miniThumbnails, shownId, formTitle, saved>>

\* Lines 712, 775-778: DELETE /api/media/:id finds no record, the request
\* fails and the error is reported.
MiniDatabaseDeleteFails ==
    /\ deletion.pc = "deleting"
    /\ deletion.active \notin DOMAIN mediaTable
    /\ deletion' = [deletion EXCEPT !.pc = "failed"]
    /\ UNCHANGED <<mediaTable, serverDir, currentImageId, currentImageData,
                   miniImageId, miniImageData, miniThumbnails, shownId, formTitle, saved>>

\* Lines 712-737: the record and its file are deleted and the modal goes
\* on to another image of the gallery.
DeletedGoesToNextImage ==
    /\ deletion.pc = "deleting"
    /\ deletion.active \in DOMAIN mediaTable
    /\ miniImageData.galleryId > 0
    /\ mediaTable' = deleteMedia(mediaTable, deletion.active)
    /\ serverDir' = serverDir \ {mediaTable[deletion.active].serverPath}
    /\ \E nextImage \in { img \in getMediaByGalleryId(mediaTable', deletion.data.galleryId) :
                            img.mediaType = "image" } :
          /\ miniImageId' = nextImage.id
          /\ miniImageData' = nextImage
          /\ formTitle' = nextImage.title
          /\ shownId' = IF currentImageId = NullId THEN NullId ELSE nextImage.id
          /\ currentImageData' = nextImage
          /\ miniThumbnails' = loadMiniGallery(mediaTable', nextImage)
    /\ deletion' = [deletion EXCEPT !.pc = "done"]
    /\ UNCHANGED <<currentImageId, saved>>

\* Lines 712-765: the record and its file are deleted and the modal is
\* closed: the image was standalone or the last image of its gallery.
DeletedClosesModal ==
    /\ deletion.pc = "deleting"
    /\ deletion.active \in DOMAIN mediaTable
    /\ \/ miniImageData.galleryId = 0
       \/ { img \in getMediaByGalleryId(deleteMedia(mediaTable, deletion.active),
                                        deletion.data.galleryId) :
              img.mediaType = "image" } = {}
    /\ mediaTable' = deleteMedia(mediaTable, deletion.active)
    /\ serverDir' = serverDir \ {mediaTable[deletion.active].serverPath}
    /\ currentImageId' = NullId
    /\ currentImageData' = NullItem
    /\ shownId' = NullId
    /\ deletion' = [deletion EXCEPT !.pc = "done"]
    /\ UNCHANGED <<miniImageId, miniImageData, miniThumbnails, formTitle, saved>>

NextMini ==
    \/ MiniOpenImageModal /\ UNCHANGED <<pngVars, cleanVars, parserVars, thumbVars, modalVars, nameVars, storeVars, twiceVars, serverVars, searchVars, migrateVars, backupVars>>
    \/ SwitchToImage /\ UNCHANGED <<pngVars, cleanVars, parserVars, thumbVars, modalVars, nameVars, storeVars, twiceVars, serverVars, searchVars, migrateVars, backupVars>>
    \/ MiniCloseModal /\ UNCHANGED <<pngVars, cleanVars, parserVars, thumbVars, modalVars, nameVars, storeVars, twiceVars, serverVars, searchVars, migrateVars, backupVars>>
    \/ EditTitle /\ UNCHANGED <<pngVars, cleanVars, parserVars, thumbVars, modalVars, nameVars, storeVars, twiceVars, serverVars, searchVars, migrateVars, backupVars>>
    \/ MiniSaveImageMetadata /\ UNCHANGED <<pngVars, cleanVars, parserVars, thumbVars, modalVars, nameVars, storeVars, twiceVars, serverVars, searchVars, migrateVars, backupVars>>
    \/ DeleteWithoutActiveImage /\ UNCHANGED <<pngVars, cleanVars, parserVars, thumbVars, modalVars, nameVars, storeVars, twiceVars, serverVars, searchVars, migrateVars, backupVars>>
    \/ DeleteAsksForGallery /\ UNCHANGED <<pngVars, cleanVars, parserVars, thumbVars, modalVars, nameVars, storeVars, twiceVars, serverVars, searchVars, migrateVars, backupVars>>
    \/ DeletionBlocked /\ UNCHANGED <<pngVars, cleanVars, parserVars, thumbVars, modalVars, nameVars, storeVars, twiceVars, serverVars, searchVars, migrateVars, backupVars>>
    \/ DeletionAllowed /\ UNCHANGED <<pngVars, cleanVars, parserVars, thumbVars, modalVars, nameVars, storeVars, twiceVars, serverVars, searchVars, migrateVars, backupVars>>
    \/ MiniServerDeleteAnswers /\ UNCHANGED <<pngVars, cleanVars, parserVars, thumbVars, modalVars, nameVars, storeVars, twiceVars, serverVars, searchVars, migrateVars, backupVars>>
    \/ MiniDatabaseDeleteFails /\ UNCHANGED <<pngVars, cleanVars, parserVars, thumbVars, modalVars, nameVars, storeVars, twiceVars, serverVars, searchVars, migrateVars, backupVars>>
    \/ DeletedGoesToNextImage /\ UNCHANGED <<pngVars, cleanVars, parserVars, thumbVars, modalVars, nameVars, storeVars, twiceVars, serverVars, searchVars, migrateVars, backupVars>>
    \/ DeletedClosesModal /\ UNCHANGED <<pngVars, cleanVars, parserVars, thumbVars, modalVars, nameVars, storeVars, twiceVars, serverVars, searchVars, migrateVars, backupVars>>

(***************************************************************************)
(* script.js: the search box                                               *)
(*                                                                         *)
(* searchBox is the value of the input, searchTimer the timeout of the     *)
(* debounced handler, searchesInFlight the requests database.searchMedia   *)
(* has sent and that have not been answered, galleryShown the ids of the   *)
(* items displayImages was last given. searchLog is a ghost: the number of *)
(* input events, of requests sent and of requests that have failed.        *)
(***************************************************************************)
MaxInputs == 3

\* The titles of the records of the media table, by id.
SearchableTitles == << Chars("a cat"), Chars("a Dog"), Chars("cat and dog") >>

\* What the user may type into the box.
SearchTerms == { << >>, Chars(" "), Chars("cat"), Chars("Dog") }

\* toLowerCase() and LOWER()
LowerText(text) == [i \in 1..Len(text) |-> Lower(text[i])]

\* database.searchMedia and GET /api/media: every item for a blank term,
\* the items whose title holds the term, case ignored, otherwise.
searchMedia(searchTerm) ==
    IF searchTerm = << >> \/ Trim(searchTerm) = << >>
    THEN DOMAIN SearchableTitles
    ELSE { id \in DOMAIN SearchableTitles :
             Includes(LowerText(SearchableTitles[id]), LowerText(searchTerm)) }

InitSearch ==
    /\ searchBox = << >>
    /\ searchTimer = FALSE
    /\ searchesInFlight = {}
    /\ galleryShown = DOMAIN SearchableTitles
    /\ searchLog = [inputs |-> 0, sent |-> 0, failures |-> 0]

\* An input event of the search box: the debounced handler clears the
\* timeout and sets a new one.
SearchInput ==
    /\ searchLog.inputs < MaxInputs
    /\ \E typed \in SearchTerms \ {searchBox} : searchBox' = typed
    /\ searchTimer' = TRUE
    /\ searchLog' = [searchLog EXCEPT !.inputs = @ + 1]
    /\ UNCHANGED <<searchesInFlight, galleryShown>>

\* The timeout expires: handleSearch reads the box and sends the request.
HandleSearch ==
    /\ searchTimer
    /\ searchTimer' = FALSE
    /\ searchesInFlight' = searchesInFlight \cup {[n |-> searchLog.sent + 1, term |-> searchBox]}
    /\ searchLog' = [searchLog EXCEPT !.sent = @ + 1]
    /\ UNCHANGED <<searchBox, galleryShown>>

\* A request is answered: handleSearch goes on and displays its results.
SearchAnswered ==
    /\ \E request \in searchesInFlight :
          /\ searchesInFlight' = searchesInFlight \ {request}
          /\ galleryShown' = searchMedia(request.term)
    /\ UNCHANGED <<searchBox, searchTimer, searchLog>>

\* A request fails: the error is reported, the gallery stays as it is.
SearchFails ==
    /\ \E request \in searchesInFlight :
          searchesInFlight' = searchesInFlight \ {request}
    /\ searchLog' = [searchLog EXCEPT !.failures = @ + 1]
    /\ UNCHANGED <<searchBox, searchTimer, galleryShown>>

NextSearch ==
    \/ SearchInput /\ UNCHANGED <<pngVars, cleanVars, parserVars, thumbVars, modalVars, nameVars, storeVars, twiceVars, serverVars, deleteVars, miniVars, migrateVars, backupVars>>
    \/ HandleSearch /\ UNCHANGED <<pngVars, cleanVars, parserVars, thumbVars, modalVars, nameVars, storeVars, twiceVars, serverVars, deleteVars, miniVars, migrateVars, backupVars>>
    \/ SearchAnswered /\ UNCHANGED <<pngVars, cleanVars, parserVars, thumbVars, modalVars, nameVars, storeVars, twiceVars, serverVars, deleteVars, miniVars, migrateVars, backupVars>>
    \/ SearchFails /\ UNCHANGED <<pngVars, cleanVars, parserVars, thumbVars, modalVars, nameVars, storeVars, twiceVars, serverVars, deleteVars, miniVars, migrateVars, backupVars>>

(***************************************************************************)
(* database.js: init and the migration of the legacy store                 *)
(*                                                                         *)
(* dexieItems are the ids of the items of the legacy IndexedDB store,      *)
(* localStorageDb the rows of the media table saved under                  *)
(* 'ai-gallery-hybrid-db', sqliteDb the rows of the table in memory. A row *)
(* that was migrated carries the id of its legacy item. initCount is a     *)
(* ghost: the number of initialisations so far.                            *)
(***************************************************************************)
MaxLegacyItems == 2
MaxInits == 3

\* Lines 163-184: the row inserted for a legacy item.
MigratedRow(legacyId) == [legacy |-> legacyId]

RECURSIVE MigrateItems(_, _, _)
\* Lines 149-199: the items are inserted in the order of their ids; an
\* item whose insert throws is skipped.
MigrateItems(table, items, failing) ==
    IF items = {} THEN table
    ELSE LET first == CHOOSE id \in items : \A other \in items : id <= other
         IN  MigrateItems(IF first \in failing THEN table
                          ELSE Append(table, MigratedRow(first)),
                          items \ {first}, failing)

\* Lines 107-215: the table after performMigration.
performMigration(table, items, failing) == MigrateItems(table, items, failing)

InitMigrate ==
    /\ dexieItems \in SUBSET (1..MaxLegacyItems)
    /\ localStorageDb = << >>
    /\ sqliteDb = << >>
    /\ isInitialized = FALSE
    /\ initCount = 0

\* Lines 11-54 with 109-114: init when the legacy store is empty or absent.
InitWithoutLegacyData ==
    /\ ~isInitialized
    /\ initCount < MaxInits
    /\ dexieItems = {}
    /\ sqliteDb' = localStorageDb
    /\ isInitialized' = TRUE
    /\ initCount' = initCount + 1
    /\ UNCHANGED <<dexieItems, localStorageDb>>

\* Lines 11-54 with 118-131 and 203-213: Dexie cannot be loaded, the
\* migration is given up and init goes on.
InitMigrationGivenUp ==
    /\ ~isInitialized
    /\ initCount < MaxInits
    /\ dexieItems # {}
    /\ sqliteDb' = localStorageDb
    /\ isInitialized' = TRUE
    /\ initCount' = initCount + 1
    /\ UNCHANGED <<dexieItems, localStorageDb>>

\* Lines 11-54 with 107-202: init loads the saved table, migrates the
\* legacy items into it and saves it; saveDatabase may fail silently.
InitMigrates ==
    /\ ~isInitialized
    /\ initCount < MaxInits
    /\ dexieItems # {}
    /\ \E failing \in SUBSET dexieItems, saves \in BOOLEAN :
          /\ sqliteDb' = performMigration(localStorageDb, dexieItems, failing)
          /\ localStorageDb' = IF saves THEN sqliteDb' ELSE localStorageDb
    /\ isInitialized' = TRUE
    /\ initCount' = initCount + 1
    /\ UNCHANGED dexieItems

\* The page is loaded again: the table in memory is gone.
PageReload ==
    /\ isInitialized
    /\ sqliteDb' = << >>
    /\ isInitialized' = FALSE
    /\ UNCHANGED <<dexieItems, localStorageDb, initCount>>

\* Lines 525-532: close saves the table and forgets it.
CloseDatabase ==
    /\ isInitialized
    /\ \E saves \in BOOLEAN :
          localStorageDb' = IF saves THEN sqliteDb ELSE localStorageDb
    /\ sqliteDb' = << >>
    /\ isInitialized' = FALSE
    /\ UNCHANGED <<dexieItems, initCount>>

NextMigrate ==
    \/ InitWithoutLegacyData /\ UNCHANGED <<pngVars, cleanVars, parserVars, thumbVars, modalVars, nameVars, storeVars, twiceVars, serverVars, deleteVars, miniVars, searchVars, backupVars>>
    \/ InitMigrationGivenUp /\ UNCHANGED <<pngVars, cleanVars, parserVars, thumbVars, modalVars, nameVars, storeVars, twiceVars, serverVars, deleteVars, miniVars, searchVars, backupVars>>
    \/ InitMigrates /\ UNCHANGED <<pngVars, cleanVars, parserVars, thumbVars, modalVars, nameVars, storeVars, twiceVars, serverVars, deleteVars, miniVars, searchVars, backupVars>>
    \/ PageReload /\ UNCHANGED <<pngVars, cleanVars, parserVars, thumbVars, modalVars, nameVars, storeVars, twiceVars, serverVars, deleteVars, miniVars, searchVars, backupVars>>
    \/ CloseDatabase /\ UNCHANGED <<pngVars, cleanVars, parserVars, thumbVars, modalVars, nameVars, storeVars, twiceVars, serverVars, deleteVars, miniVars, searchVars, backupVars>>

(***************************************************************************)
(* script.js, database.js (API client), server: export and import          *)
(*                                                                         *)
(* A row of the media table is a function from its column names to values. *)
(* sourceMedia is the table that is exported, backupFile the `images` of   *)
(* the backup file, targetMedia the table of the empty store the file is   *)
(* imported into, importResults the `results` of addMultipleMedia.         *)
(***************************************************************************)
MaxBackupItems == 2

\* The rows the exported table is made of; server_path is UNIQUE.
SourceRows ==
    { [title |-> Str(<<"cat">>), prompt |-> Str(<<"a", " ", "cat">>), model |-> Str(<<"sdxl">>),
       tags |-> Str(<<"pet">>), notes |-> Str(<< >>), date_added |-> Str(<<"2024-01-01">>),
       media_type |-> Str(<<"image">>), thumbnail_data |-> Null,
       thumbnail_position_x |-> Num(50), thumbnail_position_y |-> Num(25),
       metadata_json |-> Null, server_path |-> Null, file_size |-> Num(10), gallery_id |-> Num(0)],
      [title |-> Str(<<"dog">>), prompt |-> Str(<<"a", " ", "dog">>), model |-> Str(<< >>),
       tags |-> Str(<< >>), notes |-> Str(<<"clip">>), date_added |-> Str(<<"2024-01-02">>),
       media_type |-> Str(<<"video">>), thumbnail_data |-> Str(<<"data:image/jpeg">>),
       thumbnail_position_x |-> Num(10), thumbnail_position_y |-> Num(40),
       metadata_json |-> Str(<<"{}">>), server_path |-> Str(<<"videos/b.mp4">>),
       file_size |-> Num(20), gallery_id |-> Num(0)],
      [title |-> Str(<<"cat">>), prompt |-> Str(<< >>), model |-> Str(<<"flux">>),
       tags |-> Str(<< >>), notes |-> Str(<< >>), date_added |-> Str(<<"2024-01-03">>),
       media_type |-> Str(<<"image">>), thumbnail_data |-> Null,
       thumbnail_position_x |-> Num(0), thumbnail_position_y |-> Num(0),
       metadata_json |-> Str(<<"{}">>), server_path |-> Str(<<"images/a.png">>),
       file_size |-> Num(30), gallery_id |-> Num(7)],
      [title |-> Str(<<"dog">>), prompt |-> Str(<<"a", " ", "dog">>), model |-> Str(<<"sdxl">>),
       tags |-> Str(<<"pet">>), notes |-> Str(<< >>), date_added |-> Str(<<"2024-01-04">>),
       media_type |-> Str(<<"image">>), thumbnail_data |-> Null,
       thumbnail_position_x |-> Num(50), thumbnail_position_y |-> Num(25),
       metadata_json |-> Null, server_path |-> Null, file_size |-> Num(40), gallery_id |-> Num(0)] }

\* server_path TEXT UNIQUE: no two rows of a table share a path.
UniquePaths(mediaRows) ==
    \A i, j \in DOMAIN mediaRows :
        (i # j /\ mediaRows[i].server_path # Null) => mediaRows[i].server_path # mediaRows[j].server_path

\* SELECT * FROM media: every row with its id.
WithIds(mediaRows) == [ i \in DOMAIN mediaRows |-> [id |-> Num(i)] @@ mediaRows[i] ]

\* const { title, ... } = req.body: a property of the posted object.
BodyGet(body, key) == IF key \in DOMAIN body THEN body[key] ELSE JsUndefined

\* JSON.stringify(metadata) of the insert: undefined stays undefined, a
\* string is quoted.
StringifyMetadata(metadata) ==
    CASE metadata.t = "undef" -> JsUndefined
      [] metadata.t = "null" -> Str(<<"null">>)
      [] metadata.t = "str" -> Str(<<"\"">> \o metadata.s \o <<"\"">>)
      [] OTHER -> Str(<<"[object]">>)

\* POST /api/media: the values handed to stmt.run for a posted object.
PostMediaValues(body) ==
    LET thumbnailPosition == BodyGet(body, "thumbnailPosition")
        dateAdded == BodyGet(body, "dateAdded")
        galleryId == BodyGet(body, "galleryId")
    IN  [title |-> BodyGet(body, "title"),
         prompt |-> BodyGet(body, "prompt"),
         model |-> BodyGet(body, "model"),
         tags |-> BodyGet(body, "tags"),
         notes |-> BodyGet(body, "notes"),
         date_added |-> IF Truthy(dateAdded) THEN dateAdded ELSE Str(<<"now">>),
         media_type |-> BodyGet(body, "mediaType"),
         thumbnail_data |-> BodyGet(body, "thumbnailData"),
         thumbnail_position_x |-> IF Truthy(thumbnailPosition) /\ Get(thumbnailPosition, "x") # JsUndefined
                                  THEN Get(thumbnailPosition, "x") ELSE Num(50),
         thumbnail_position_y |-> IF Truthy(thumbnailPosition) /\ Get(thumbnailPosition, "y") # JsUndefined
                                  THEN Get(thumbnailPosition, "y") ELSE Num(25),
         metadata_json |-> StringifyMetadata(BodyGet(body, "metadata")),
         server_path |-> BodyGet(body, "serverPath"),
         file_size |-> BodyGet(body, "fileSize"),
         gallery_id |-> IF galleryId # JsUndefined THEN galleryId ELSE Num(0)]

\* stmt.run is handed undefined for some parameter.
BindsUndefined(values) == \E column \in DOMAIN values : values[column] = JsUndefined

\* The row stored when the driver binds an undefined parameter as NULL.
BoundRow(values) ==
    [ column \in DOMAIN values |->
        IF values[column] = JsUndefined THEN Null ELSE values[column] ]

\* title and date_added are NOT NULL.
ConstraintsMet(row) == row.title # Null /\ row.date_added # Null

InitBackup ==
    /\ sourceMedia \in { mediaRows \in SeqUpTo(SourceRows, MaxBackupItems) : UniquePaths(mediaRows) }
    /\ backupFile = << >>
    /\ importIndex = 0
    /\ targetMedia = << >>
    /\ importResults = << >>
    /\ backupPc = "idle"

\* script.js exportAllData, database.exportAllData and GET /api/export:
\* the rows of the table, as they are, become the `images` of the file.
ExportAllData ==
    /\ backupPc = "idle"
    /\ backupFile' = WithIds(sourceMedia)
    /\ backupPc' = "exported"
    /\ UNCHANGED <<sourceMedia, importIndex, targetMedia, importResults>>

\* script.js importAllData: the file is parsed and addMultipleMedia starts.
ImportAllData ==
    /\ backupPc = "exported"
    /\ importIndex' = 1
    /\ backupPc' = "importing"
    /\ UNCHANGED <<sourceMedia, backupFile, targetMedia, importResults>>

\* addMultipleMedia, addMedia and POST /api/media for one item: the row is
\* inserted; an undefined parameter was bound as NULL.
AddMediaStored ==
    /\ backupPc = "importing"
    /\ importIndex <= Len(backupFile)
    /\ \E row \in {BoundRow(PostMediaValues(backupFile[importIndex]))} :
          /\ ConstraintsMet(row)
          /\ targetMedia' = Append(targetMedia, row)
          /\ importResults' = Append(importResults, "id")
    /\ importIndex' = importIndex + 1
    /\ UNCHANGED <<sourceMedia, backupFile, backupPc>>

\* addMultipleMedia, addMedia and POST /api/media for one item: stmt.run
\* throws on an undefined parameter or on a constraint, the server answers
\* 500 and the item is recorded as an error.
AddMediaFails ==
    /\ backupPc = "importing"
    /\ importIndex <= Len(backupFile)
    /\ \E values \in {PostMediaValues(backupFile[importIndex])} :
          BindsUndefined(values) \/ ~ConstraintsMet(BoundRow(values))
    /\ importResults' = Append(importResults, "error")
    /\ importIndex' = importIndex + 1
    /\ UNCHANGED <<sourceMedia, backupFile, targetMedia, backupPc>>

\* addMultipleMedia returns and importAllData reports the import.
ImportFinished ==
    /\ backupPc = "importing"
    /\ importIndex > Len(backupFile)
    /\ backupPc' = "imported"
    /\ UNCHANGED <<sourceMedia, backupFile, importIndex, targetMedia, importResults>>

NextBackup ==
    \/ ExportAllData /\ UNCHANGED <<pngVars, cleanVars, parserVars, thumbVars, modalVars, nameVars, storeVars, twiceVars, serverVars, deleteVars, miniVars, searchVars, migrateVars>>
    \/ ImportAllData /\ UNCHANGED <<pngVars, cleanVars, parserVars, thumbVars, modalVars, nameVars, storeVars, twiceVars, serverVars, deleteVars, miniVars, searchVars, migrateVars>>
    \/ AddMediaStored /\ UNCHANGED <<pngVars, cleanVars, parserVars, thumbVars, modalVars, nameVars, storeVars, twiceVars, serverVars, deleteVars, miniVars, searchVars, migrateVars>>
    \/ AddMediaFails /\ UNCHANGED <<pngVars, cleanVars, parserVars, thumbVars, modalVars, nameVars, storeVars, twiceVars, serverVars, deleteVars, miniVars, searchVars, migrateVars>>
    \/ ImportFinished /\ UNCHANGED <<pngVars, cleanVars, parserVars, thumbVars, modalVars, nameVars, storeVars, twiceVars, serverVars, deleteVars, miniVars, searchVars, migrateVars>>

(***************************************************************************)
(* Idle values of the components a specification does not exercise         *)
(***************************************************************************)
CleanIdle ==
    /\ cleanIn = << >>
    /\ cleanOnce = << >>
    /\ cleanTwice = << >>
    /\ cleanPc = "done"

ParserIdle ==
    /\ parserIn = << >>
    /\ parserOut = << >>
    /\ parserPc = "done"

TwiceIdle ==
    /\ twiceIn = << >>
    /\ clock = << >>
    /\ firstOut = << >>
    /\ secondOut = << >>
    /\ twicePc = "done"

StoreIdle ==
    /\ rows = << >>
    /\ maint = [op |-> "none"]
    /\ maintPc = "done"

NameIdle ==
    /\ nameIn = << >>
    /\ nameOut = << >>
    /\ namePc = "idle"

ModalIdle ==
    /\ item = << >>
    /\ promptField = << >>
    /\ modelField = << >>
    /\ modalPc = "done"

ThumbIdle ==
    /\ thumbIn = << >>
    /\ crop = << >>
    /\ thumbPc = "done"

ServerIdle ==
    /\ disk = {}
    /\ delReq = << >>
    /\ delRes = [status |-> 0]
    /\ serverPc = "done"

DeleteIdle ==
    /\ mediaTable = << >>
    /\ serverDir = {}
    /\ currentImageId = NullId
    /\ currentImageData = << >>
    /\ deletion = [pc |-> "idle"]

MiniIdle ==
    /\ miniImageId = NullId
    /\ miniImageData = << >>
    /\ miniThumbnails = {}
    /\ shownId = NullId
    /\ formTitle = ""
    /\ saved = [target |-> NullId, shown |-> NullId]

SearchIdle ==
    /\ searchBox = << >>
    /\ searchTimer = FALSE
    /\ searchesInFlight = {}
    /\ galleryShown = {}
    /\ searchLog = [inputs |-> 0]

MigrateIdle ==
    /\ dexieItems = {}
    /\ localStorageDb = << >>
    /\ sqliteDb = << >>
    /\ isInitialized = FALSE
    /\ initCount = 0

BackupIdle ==
    /\ sourceMedia = << >>
    /\ backupFile = << >>
    /\ importIndex = 0
    /\ targetMedia = << >>
    /\ importResults = << >>
    /\ backupPc = "idle"

InitPngOnly == InitPng /\ CleanIdle /\ ParserIdle /\ ThumbIdle /\ ModalIdle /\ NameIdle /\ StoreIdle
    /\ TwiceIdle
    /\ ServerIdle
    /\ DeleteIdle
    /\ MiniIdle
    /\ SearchIdle
    /\ MigrateIdle
    /\ BackupIdle

InitCleanOnly == PngIdle /\ InitClean /\ ParserIdle /\ ThumbIdle /\ ModalIdle /\ NameIdle /\ StoreIdle
    /\ TwiceIdle
    /\ ServerIdle
    /\ DeleteIdle
    /\ MiniIdle
    /\ SearchIdle
    /\ MigrateIdle
    /\ BackupIdle

SpecClean == InitCleanOnly /\ [][NextClean]_vars

InitParsersOnly == PngIdle /\ CleanIdle /\ InitParsers /\ ThumbIdle /\ ModalIdle /\ NameIdle /\ StoreIdle
    /\ TwiceIdle
    /\ ServerIdle
    /\ DeleteIdle
    /\ MiniIdle
    /\ SearchIdle
    /\ MigrateIdle
    /\ BackupIdle

SpecParsers == InitParsersOnly /\ [][NextParsers]_vars

SpecPng == InitPngOnly /\ [][NextPng]_vars

InitThumbOnly == PngIdle /\ CleanIdle /\ ParserIdle /\ InitThumb /\ ModalIdle /\ NameIdle /\ StoreIdle
    /\ TwiceIdle
    /\ ServerIdle
    /\ DeleteIdle
    /\ MiniIdle
    /\ SearchIdle
    /\ MigrateIdle
    /\ BackupIdle

SpecThumb == InitThumbOnly /\ [][NextThumb]_vars

InitModalOnly == PngIdle /\ CleanIdle /\ ParserIdle /\ ThumbIdle /\ InitModal /\ NameIdle /\ StoreIdle
    /\ TwiceIdle
    /\ ServerIdle
    /\ DeleteIdle
    /\ MiniIdle
    /\ SearchIdle
    /\ MigrateIdle
    /\ BackupIdle

SpecModal == InitModalOnly /\ [][NextModal]_vars

InitNameOnly == PngIdle /\ CleanIdle /\ ParserIdle /\ ThumbIdle /\ ModalIdle /\ InitName /\ StoreIdle
    /\ TwiceIdle
    /\ ServerIdle
    /\ DeleteIdle
    /\ MiniIdle
    /\ SearchIdle
    /\ MigrateIdle
    /\ BackupIdle

SpecName == InitNameOnly /\ [][NextName]_vars

InitStoreOnly ==
    PngIdle /\ CleanIdle /\ ParserIdle /\ ThumbIdle /\ ModalIdle /\ NameIdle /\ InitStore
    /\ TwiceIdle
    /\ ServerIdle
    /\ DeleteIdle
    /\ MiniIdle
    /\ SearchIdle
    /\ MigrateIdle
    /\ BackupIdle

SpecStore == InitStoreOnly /\ [][NextStore]_vars

InitTwiceOnly ==
    PngIdle /\ CleanIdle /\ ParserIdle /\ ThumbIdle /\ ModalIdle /\ NameIdle /\ StoreIdle
    /\ InitTwice
    /\ ServerIdle
    /\ DeleteIdle
    /\ MiniIdle
    /\ SearchIdle
    /\ MigrateIdle
    /\ BackupIdle

SpecTwice == InitTwiceOnly /\ [][NextTwice]_vars

InitServerOnly ==
    PngIdle /\ CleanIdle /\ ParserIdle /\ TwiceIdle /\ StoreIdle /\ NameIdle /\ ModalIdle
    /\ ThumbIdle
    /\ InitServer
    /\ DeleteIdle
    /\ MiniIdle
    /\ SearchIdle
    /\ MigrateIdle
    /\ BackupIdle

SpecServer == InitServerOnly /\ [][NextServer]_vars

InitDeleteOnly ==
    PngIdle /\ CleanIdle /\ ParserIdle /\ TwiceIdle /\ StoreIdle /\ NameIdle /\ ModalIdle
    /\ ThumbIdle /\ ServerIdle
    /\ InitDelete
    /\ MiniIdle
    /\ SearchIdle
    /\ MigrateIdle
    /\ BackupIdle

SpecDelete == InitDeleteOnly /\ [][NextDelete]_vars

InitMiniOnly ==
    PngIdle /\ CleanIdle /\ ParserIdle /\ TwiceIdle /\ StoreIdle /\ NameIdle /\ ModalIdle
    /\ ThumbIdle /\ ServerIdle
    /\ InitMini
    /\ SearchIdle
    /\ MigrateIdle
    /\ BackupIdle

SpecMini == InitMiniOnly /\ [][NextMini]_vars

InitSearchOnly ==
    PngIdle /\ CleanIdle /\ ParserIdle /\ TwiceIdle /\ StoreIdle /\ NameIdle /\ ModalIdle
    /\ ThumbIdle /\ ServerIdle /\ DeleteIdle /\ MiniIdle
    /\ InitSearch
    /\ MigrateIdle
    /\ BackupIdle

SpecSearch == InitSearchOnly /\ [][NextSearch]_vars

InitMigrateOnly ==
    PngIdle /\ CleanIdle /\ ParserIdle /\ TwiceIdle /\ StoreIdle /\ NameIdle /\ ModalIdle
    /\ ThumbIdle /\ ServerIdle /\ DeleteIdle /\ MiniIdle /\ SearchIdle
    /\ InitMigrate
    /\ BackupIdle

SpecMigrate == InitMigrateOnly /\ [][NextMigrate]_vars

InitBackupOnly ==
    PngIdle /\ CleanIdle /\ ParserIdle /\ TwiceIdle /\ StoreIdle /\ NameIdle /\ ModalIdle
    /\ ThumbIdle /\ ServerIdle /\ DeleteIdle /\ MiniIdle /\ SearchIdle /\ MigrateIdle
    /\ InitBackup

SpecBackup == InitBackupOnly /\ [][NextBackup]_vars

(***************************************************************************)
(* Claims about the chunk extractor                                        *)
(***************************************************************************)
\* The first 8 bytes are exactly the PNG signature 89 50 4E 47 0D 0A 1A 0A.
HasPngSignature(b) == Len(b) >= 8 /\ SubSeq(b, 1, 8) = PngSignature

\* C1: extractPNGTextChunks returns an empty mapping for every buffer whose
\* first 8 bytes are not exactly the PNG signature.
C1_NoSignatureGivesEmpty ==
    (pngPc = "done" /\ ~HasPngSignature(buf)) => chunks = EmptyMap

\* C2: the chunk walk terminates for every buffer. The next cursor is a
\* function of the buffer and the cursor alone, so a walk that comes back to
\* a cursor it has already run an iteration at never ends: a terminating
\* walk is never at a visited cursor.
C2_WalkTerminates ==
    pngPc = "walk" => offset \notin visited

\* A well-formed buffer: the signature, then chunks that each carry their
\* true length, a type, the payload and a CRC; nothing is missing.
WellFormed(s) ==
    /\ s.header = PngSignature
    /\ s.cut = 0
    /\ \A i \in 1..Len(s.body) : s.body[i] \in GoodChunks

\* The tEXt chunks of a body that hold a keyword/value pair.
TextChunkIdx(body) ==
    {i \in 1..Len(body) : body[i].type = tEXt /\ \E j \in 1..Len(body[i].data) : body[i].data[j] = 0}

FirstNull(d) == CHOOSE j \in 1..Len(d) : d[j] = 0 /\ \A h \in 1..(j - 1) : d[h] # 0
KeywordOf(d) == SubSeq(d, 1, FirstNull(d) - 1)
ValueOf(d)   == SubSeq(d, FirstNull(d) + 1, Len(d))

\* The keyword-to-value pairs of a body's tEXt chunks (a keyword that occurs
\* twice keeps its last value).
TextPairs(body) ==
    LET idx == TextChunkIdx(body)
        lastOf(k) == CHOOSE i \in idx : /\ KeywordOf(body[i].data) = k
                                        /\ \A j \in idx : KeywordOf(body[j].data) = k => j <= i
    IN  [k \in {KeywordOf(body[i].data) : i \in idx} |-> ValueOf(body[lastOf(k)].data)]

\* C3: for a well-formed buffer extractPNGTextChunks returns exactly the
\* keyword-to-value pairs of its tEXt chunks, each payload split at its
\* first null byte; chunks of any other type (iTXt and zTXt included) add
\* nothing, wherever the tEXt chunk sits.
C3_WellFormedGivesTextPairs ==
    (pngPc = "done" /\ WellFormed(pngSrc)) => chunks = TextPairs(pngSrc.body)

\* C3 witness: a tEXt chunk prompt\0hello between two other chunks, and one
\* with two null bytes after it, have been extracted.
C3_Witness ==
    /\ pngPc = "done"
    /\ WellFormed(pngSrc)
    /\ Len(pngSrc.body) = 3
    /\ pngSrc.body[1].type = iTXt
    /\ pngSrc.body[2] = [type |-> tEXt, data |-> kwPrompt \o <<0>> \o txHello]
    /\ pngSrc.body[3] = [type |-> tEXt, data |-> <<107, 0, 118, 0, 119>>]
    /\ chunks = [k \in {kwPrompt, <<107>>} |-> IF k = kwPrompt THEN txHello ELSE <<118, 0, 119>>]

(***************************************************************************)
(* Claims about the text cleaner                                           *)
(***************************************************************************)
\* C4: cleanPromptText is idempotent: cleaning an already cleaned text gives
\* the same text.
C4_CleanIdempotent ==
    cleanPc = "twice" => cleanTwice = cleanOnce

(***************************************************************************)
(* Claims about the tool-specific parsers                                  *)
(***************************************************************************)
\* Whether the string s holds the string sub somewhere.
Contains(s, sub) ==
    \E i \in 1..(Len(s) - Len(sub) + 1) : SubSeq(s, i, i + Len(sub) - 1) = sub

RECURSIVE SplitLines(_)
\* The lines of a string, without their line ends.
SplitLines(s) ==
    IF s = << >> THEN << >>
    ELSE IF \E i \in 1..Len(s) : s[i] = "\n"
         THEN LET nl == CHOOSE i \in 1..Len(s) : s[i] = "\n" /\ \A j \in 1..(i - 1) : s[j] # "\n"
              IN  <<SubSeq(s, 1, nl - 1)>> \o SplitLines(SubSeq(s, nl + 1, Len(s)))
         ELSE <<s>>

Returned(parser) == parserPc = "returned" /\ parserOut.parser = parser

\* The JSON value of a chunk of the call's mapping (JsUndefined if the
\* chunk is absent or is not JSON text).
ChunkValue(key) ==
    IF key \in DOMAIN parserIn.chunks /\ parserIn.chunks[key].kind = "json"
    THEN parserIn.chunks[key].value ELSE JsUndefined

\* C5: both parsers return a record with exactly the fields title, prompt,
\* model, tags, notes, each of them a string.
C5_FieldsAreStrings ==
    parserPc = "returned" =>
        /\ DOMAIN parserOut.info = FieldNames
        /\ \A f \in FieldNames : parserOut.info[f].t = "str"

\* C6 as stated: no exception escapes a parser, and a chunk whose JSON
\* failed to parse or process leaves an annotation in notes (the
\* raw-workflow note of extractComfyUIInfo, the parse-failure note and the
\* generic tags of extractChatGPTInfo).
C6_FailureAnnotated ==
    parserPc = "returned" =>
        /\ ~parserOut.escaped
        /\ (parserOut.parser = "chatgpt" /\ parserOut.threw # {}) =>
              /\ Contains(parserOut.info.notes.s, ChatGPTFailureNote)
              /\ parserOut.info.tags = Str(<<"ChatGPT,AI-Generated">>)
        /\ (parserOut.parser = "comfyui" /\ parserOut.threw # {}) =>
              Contains(parserOut.info.notes.s, ComfyRawNote)

\* C6 as amended: no exception escapes a parser; a failing prompt chunk
\* gives, in extractChatGPTInfo, the parse-failure note as the whole notes
\* and the tags 'ChatGPT,AI-Generated'; a failing workflow chunk gives, in
\* extractComfyUIInfo, the raw-workflow note; a prompt chunk that fails to
\* parse in extractComfyUIInfo leaves no annotation: the raw text becomes
\* the prompt if it is longer than 5 characters.
C6_FailureHandled ==
    parserPc = "returned" =>
        /\ ~parserOut.escaped
        /\ (parserOut.parser = "chatgpt" /\ parserOut.threw # {}) =>
              /\ parserOut.info.notes = Str(ChatGPTFailureNote)
              /\ parserOut.info.tags = Str(<<"ChatGPT,AI-Generated">>)
        /\ (parserOut.parser = "comfyui" /\ "workflow" \in parserOut.threw) =>
              Contains(parserOut.info.notes.s, ComfyRawNote)
        /\ (parserOut.parser = "comfyui" /\ "prompt" \in parserOut.threw) =>
              /\ StrLen(parserIn.chunks["prompt"].text) > 5 =>
                    parserOut.info.prompt = Str(parserIn.chunks["prompt"].text)
              /\ "workflow" \notin parserOut.threw =>
                    /\ ~Contains(parserOut.info.notes.s, ComfyRawNote)
                    /\ ~Contains(parserOut.info.notes.s, ChatGPTFailureNote)

\* C6 witness: extractComfyUIInfo has returned from a workflow whose node
\* list holds null and a prompt chunk that is not JSON.
C6_Witness ==
    /\ Returned("comfyui")
    /\ parserOut.threw = {"workflow", "prompt"}
    /\ ChunkValue("workflow") = Obj(<<<<"nodes", Arr(<<Null>>)>>>>)
    /\ Contains(parserOut.info.notes.s, ComfyRawNote)
    /\ parserOut.info.prompt = Str(<<"plain", " ", "text", " ", "prompt">>)

\* The workflow of the call has a nodes array.
HasNodesArray ==
    /\ ChunkValue("workflow").t = "obj"
    /\ Get(ChunkValue("workflow"), "nodes").t = "arr"

WorkflowNodes == Get(ChunkValue("workflow"), "nodes").a

\* The textual widget values longer than 10 characters of a node, in order.
LongTexts(node) ==
    IF node.t = "obj" /\ Get(node, "type") = Str(<<"CLIPTextEncode">>)
       /\ Get(node, "widgets_values").t = "arr"
    THEN SelectSeq(Get(node, "widgets_values").a, LAMBDA v : v.t = "str" /\ StrLen(v.s) > 10)
    ELSE << >>

\* C7 as stated: with a nodes array, the prompt is the first textual widget
\* value longer than 10 characters of a CLIPTextEncode node, nodes and
\* widget values scanned in order, and the tags contain 'ComfyUI'.
C7_FirstTextualWidget ==
    (Returned("comfyui") /\ HasNodesArray) =>
        LET texts == Concat([i \in 1..Len(WorkflowNodes) |-> LongTexts(WorkflowNodes[i])])
        IN  /\ texts # << >> => parserOut.info.prompt = texts[1]
            /\ parserOut.info.tags = Str(<<"ComfyUI,AI-Generated">>)

\* A CLIPTextEncode node whose first widget value is a string longer than
\* 10 characters.
FirstWidgetIsLongText(node) ==
    /\ node.t = "obj"
    /\ Get(node, "type") = Str(<<"CLIPTextEncode">>)
    /\ Get(node, "widgets_values").t = "arr"
    /\ Len(Get(node, "widgets_values").a) >= 1
    /\ Get(node, "widgets_values").a[1].t = "str"
    /\ StrLen(Get(node, "widgets_values").a[1].s) > 10

\* C7 as amended: with a nodes array whose entries are all objects, the
\* prompt is the first widget value of the first CLIPTextEncode node whose
\* first widget value is a string longer than 10 characters; the tags are
\* 'ComfyUI,AI-Generated' unless a parameters chunk is present, and then
\* 'AUTOMATIC1111,AI-Generated'.
C7_FirstPromptNode ==
    (/\ Returned("comfyui")
     /\ HasNodesArray
     /\ \A i \in 1..Len(WorkflowNodes) : WorkflowNodes[i].t = "obj") =>
        LET hits == {i \in 1..Len(WorkflowNodes) : FirstWidgetIsLongText(WorkflowNodes[i])}
            first == CHOOSE i \in hits : \A j \in hits : i <= j
        IN  /\ hits # {} =>
                parserOut.info.prompt = Get(WorkflowNodes[first], "widgets_values").a[1]
            /\ parserOut.info.tags =
                 IF HasChunk(parserIn.chunks, "parameters")
                 THEN Str(<<"AUTOMATIC1111,AI-Generated">>)
                 ELSE Str(<<"ComfyUI,AI-Generated">>)

\* C7 witness: the single-node workflow of the specification's example has
\* been parsed, and so has a workflow of two qualifying nodes.
C7_Witness ==
    /\ Returned("comfyui")
    /\ HasNodesArray
    /\ WorkflowNodes \in {<<ClipNode(<<Str(LongA)>>)>>,
                          <<ClipNode(<<Str(LongA)>>), ClipNode(<<Str(LongB)>>)>>}
    /\ parserOut.info.prompt = Str(LongA)
    /\ parserOut.info.tags = Str(<<"ComfyUI,AI-Generated">>)

\* extractChatGPTInfo has returned from a prompt chunk that parsed.
ChatGPTParsed ==
    /\ Returned("chatgpt")
    /\ HasChunk(parserIn.chunks, "prompt")
    /\ parserOut.threw = {}

IsText(v) == v.t = "str" /\ v.s # << >>

\* C8: for a JSON object with tool T, prompt P and optionally
\* internal_prompt I (texts), model is T, the tags are
\* 'ChatGPT,AI-Generated,Image-Gen', the prompt field is P under the line
\* USER PROMPT: followed, if I is there, by a blank line and I under the
\* line INTERNAL PROMPT: (surrounding whitespace trimmed), and the notes
\* hold the date_generated text.
C8_ChatGPTFields ==
    LET data == ChunkValue("prompt")
        T == Get(data, "tool")
        P == Get(data, "prompt")
        I == Get(data, "internal_prompt")
        D == Get(data, "date_generated")
    IN  (/\ ChatGPTParsed
         /\ data.t = "obj"
         /\ IsText(T) /\ IsText(P)
         /\ I = JsUndefined \/ IsText(I)) =>
            /\ parserOut.info.model = T
            /\ parserOut.info.tags = Str(<<"ChatGPT,AI-Generated,Image-Gen">>)
            /\ parserOut.info.prompt =
                 Str(Trim(<<"USER PROMPT:", "\n">> \o P.s \o <<"\n", "\n">>
                          \o (IF I = JsUndefined THEN << >>
                              ELSE <<"INTERNAL PROMPT:", "\n">> \o I.s)))
            /\ IsText(D) => Contains(parserOut.info.notes.s, D.s)

\* C8 witness: the record of the specification's example with an internal
\* prompt added has been parsed.
C8_Witness ==
    /\ ChatGPTParsed
    /\ ChunkValue("prompt") =
         ChatGPTRecord(Str(<<"ChatGPT-4">>), Str(<<"a red fox">>),
                       Str(<<"A photo of a red fox">>), {"date_generated"})
    /\ parserOut.info.model = Str(<<"ChatGPT-4">>)
    /\ parserOut.info.prompt =
         Str(<<"USER PROMPT:", "\n", "a red fox", "\n", "\n",
               "INTERNAL PROMPT:", "\n", "A photo of a red fox">>)
    /\ Contains(parserOut.info.notes.s, <<"2024-01-01">>)

\* The label that opens the note line of each field.
NoteLabels ==
    <<"[calendar] Generated:", "[page] Original filename:", "[palette] Style:",
      "[ruler] Aspect ratio:", "[magnifier] Resolution:", "[disk] File size:",
      "[picture] Source image:">>

\* The index in NoteFields of the field a line belongs to, 0 if none.
FieldOfLine(line) ==
    IF line # << >> /\ \E k \in 1..7 : NoteLabels[k] = line[1]
    THEN CHOOSE k \in 1..7 : NoteLabels[k] = line[1]
    ELSE 0

\* C9 as stated: the notes of a successful parse consist of the field lines
\* in the order date, filename, style, aspect ratio, resolution, file size,
\* source image; a line is there only if its field is in the JSON; the date
\* line, if there, is the first line.
C9_DateLineFirst ==
    ChatGPTParsed =>
        LET lines == SplitLines(parserOut.info.notes.s)
            data  == ChunkValue("prompt")
        IN  /\ \A i \in 1..Len(lines) : FieldOfLine(lines[i]) # 0
            /\ \A i, j \in 1..Len(lines) :
                  i < j => FieldOfLine(lines[i]) < FieldOfLine(lines[j])
            /\ \A i \in 1..Len(lines) :
                  FieldOfLine(lines[i]) # 0 =>
                      Get(data, NoteFields[FieldOfLine(lines[i])]) # JsUndefined
            /\ (\E i \in 1..Len(lines) : FieldOfLine(lines[i]) = 1) =>
                  FieldOfLine(lines[1]) = 1

\* The note line of field k of data, as the amended claim has it.
ExpectedNoteLine(data, k) ==
    <<NoteLabels[k], " ">> \o JsToString(Get(data, NoteFields[k]))
    \o (IF NoteFields[k] = "file_size_mb" THEN <<" ", "MB">> ELSE << >>)

\* C9 as amended: the notes of a successful parse are the header line, then
\* the date line, always there (with Unknown if date_generated is absent or
\* falsy), then the lines of filename, style, aspect ratio, resolution,
\* file size, source image in this order, each there exactly if its field
\* has a truthy value.
C9_NotesLayout ==
    ChatGPTParsed =>
        LET data == ChunkValue("prompt")
        IN  SplitLines(parserOut.info.notes.s) =
              <<<<"[robot] ChatGPT Image Generation">>>>
              \o <<IF Truthy(Get(data, "date_generated")) THEN ExpectedNoteLine(data, 1)
                   ELSE <<"[calendar] Generated:", " ", "Unknown">>>>
              \o [i \in 1..Cardinality({k \in 2..7 : Truthy(Get(data, NoteFields[k]))}) |->
                    ExpectedNoteLine(data,
                        CHOOSE k \in 2..7 :
                            /\ Truthy(Get(data, NoteFields[k]))
                            /\ Cardinality({h \in 2..k : Truthy(Get(data, NoteFields[h]))}) = i)]

\* C9 witness: a record with a style and a filename and no date has been
\* parsed: the date line says Unknown and the filename line precedes the
\* style line.
C9_Witness ==
    /\ ChatGPTParsed
    /\ ChunkValue("prompt").t = "obj"
    /\ Get(ChunkValue("prompt"), "date_generated") = JsUndefined
    /\ SplitLines(parserOut.info.notes.s) =
         << <<"[robot] ChatGPT Image Generation">>,
            <<"[calendar] Generated:", " ", "Unknown">>,
            <<"[page] Original filename:", " ", "fox.png">>,
            <<"[palette] Style:", " ", "vivid">> >>

RECURSIVE JsonSource(_)
\* The JSON text of a value: the chunk string that JSON.parse turns into it.
JsonSource(v) ==
    CASE v.t = "str"  -> <<"\"">> \o v.s \o <<"\"">>
      [] v.t = "num"  -> <<NumStr(v.n)>>
      [] v.t = "null" -> <<"null">>
      [] v.t = "arr"  ->
            <<"[">> \o JoinWith([i \in 1..Len(v.a) |-> JsonSource(v.a[i])], <<",">>) \o <<"]">>
      [] v.t = "obj"  ->
            <<"{">> \o JoinWith([i \in 1..Len(v.props) |->
                                   <<"\"" \o v.props[i][1] \o "\":">> \o JsonSource(v.props[i][2])],
                                <<",">>) \o <<"}">>

\* The string of a chunk.
ChunkSource(c) == IF c.kind = "raw" THEN c.text ELSE JsonSource(c.value)

\* extractComfyUIInfo has returned from a mapping with a prompt chunk whose
\* workflow chunk, if any, gave no prompt.
PromptChunkConsulted ==
    /\ Returned("comfyui")
    /\ HasChunk(parserIn.chunks, "prompt")
    /\ ComfyWorkflow(NewAiInfo, parserIn.chunks, parserIn.today).info.prompt = EmptyStr

\* The top-level properties of the prompt chunk's JSON value that are
\* strings longer than 10 characters, in enumeration order.
LongTopLevelStrings ==
    LET v == ChunkValue("prompt")
    IN  SelectSeq(IF v.t = "obj" THEN [i \in 1..Len(v.props) |-> v.props[i][2]]
                  ELSE IF v.t = "arr" THEN v.a ELSE << >>,
                  LAMBDA x : x.t = "str" /\ StrLen(x.s) > 10)

\* C11 as stated: with a prompt chunk and no prompt from the workflow, the
\* prompt is the first top-level string property longer than 10 characters
\* of the parsed JSON; otherwise (not JSON, or JSON with no such property)
\* it is the raw chunk string if that is longer than 5 characters.
C11_PromptChunkOrRaw ==
    PromptChunkConsulted =>
        IF LongTopLevelStrings # << >>
        THEN parserOut.info.prompt = LongTopLevelStrings[1]
        ELSE StrLen(ChunkSource(parserIn.chunks["prompt"])) > 5 =>
                parserOut.info.prompt = Str(ChunkSource(parserIn.chunks["prompt"]))

\* C11 as amended: with a prompt chunk and no prompt from the workflow, the
\* prompt is the first top-level string property longer than 10 characters
\* of the parsed JSON; if the text is not JSON it is the raw chunk string
\* if that is longer than 5 characters; if neither applies (JSON with no
\* such property, or a short string that is not JSON) the prompt chunk sets
\* nothing: prompt is the parameters chunk if there is one and '' if not.
C11_PromptChunkOrRawIfNotJson ==
    PromptChunkConsulted =>
        LET c == parserIn.chunks["prompt"]
            unset == IF HasChunk(parserIn.chunks, "parameters")
                     THEN Str(parserIn.chunks["parameters"].text) ELSE EmptyStr
        IN  parserOut.info.prompt =
              IF c.kind = "json"
              THEN IF LongTopLevelStrings # << >> THEN LongTopLevelStrings[1] ELSE unset
              ELSE IF StrLen(c.text) > 5 THEN Str(c.text) ELSE unset

\* C11 witness: a prompt chunk whose properties are a string of 10
\* characters, a number and two longer strings gave the first longer
\* string; a JSON prompt chunk with no such property gave no prompt.
C11_Witness ==
    /\ PromptChunkConsulted
    /\ \/ /\ LongTopLevelStrings = <<Str(LongB), Str(LongA)>>
          /\ parserOut.info.prompt = Str(LongB)
       \/ /\ ChunkValue("prompt").t = "obj"
          /\ LongTopLevelStrings = << >>
          /\ ~HasChunk(parserIn.chunks, "parameters")
          /\ parserOut.info.prompt = EmptyStr

\* C12 as stated: the tags of extractComfyUIInfo are '', the ComfyUI tags
\* or the AUTOMATIC1111 tags: the ComfyUI tags when a workflow or prompt
\* key is present and no parameters key, the AUTOMATIC1111 tags when a
\* parameters key is present, '' when none of the three keys is present.
C12_TagsByKeysPresent ==
    Returned("comfyui") =>
        LET keys == DOMAIN parserIn.chunks
            tags == parserOut.info.tags
        IN  /\ tags \in {EmptyStr, Str(<<"ComfyUI,AI-Generated">>),
                         Str(<<"AUTOMATIC1111,AI-Generated">>)}
            /\ (keys \cap {"workflow", "prompt"} # {} /\ "parameters" \notin keys) =>
                  tags = Str(<<"ComfyUI,AI-Generated">>)
            /\ "parameters" \in keys => tags = Str(<<"AUTOMATIC1111,AI-Generated">>)
            /\ keys \cap {"workflow", "prompt", "parameters"} = {} => tags = EmptyStr

\* C12 as amended: the same, with "present" read as "present with a
\* non-empty value": a key whose value is the empty string counts as absent.
C12_TagsByNonEmptyKeys ==
    Returned("comfyui") =>
        LET has(k) == k \in DOMAIN parserIn.chunks /\ ChunkSource(parserIn.chunks[k]) # << >>
            tags == parserOut.info.tags
        IN  /\ tags \in {EmptyStr, Str(<<"ComfyUI,AI-Generated">>),
                         Str(<<"AUTOMATIC1111,AI-Generated">>)}
            /\ ((has("workflow") \/ has("prompt")) /\ ~has("parameters")) =>
                  tags = Str(<<"ComfyUI,AI-Generated">>)
            /\ has("parameters") => tags = Str(<<"AUTOMATIC1111,AI-Generated">>)
            /\ (~has("workflow") /\ ~has("prompt") /\ ~has("parameters")) => tags = EmptyStr

\* C12 witness: a mapping with a workflow, a prompt and parameters gave the
\* AUTOMATIC1111 tags alone; so did one whose workflow value is empty.
C12_Witness ==
    /\ Returned("comfyui")
    /\ {"workflow", "prompt", "parameters"} \subseteq DOMAIN parserIn.chunks
    /\ ChunkSource(parserIn.chunks["parameters"]) # << >>
    /\ ChunkSource(parserIn.chunks["prompt"]) # << >>
    /\ parserIn.chunks["workflow"] \in {RawText(<< >>), JsonText(Obj(<<<<"nodes", Arr(<< >>)>>>>))}
    /\ parserOut.info.tags = Str(<<"AUTOMATIC1111,AI-Generated">>)

WorkflowWalked ==
    /\ modalPc = "open"
    /\ item.mediaType = "image"
    /\ item.workflow # Absent
    /\ JSONParse(item.workflow).ok
    /\ ~MiningThrows(item.workflow.value)

\* The candidates extractTextFromWorkflow retains for the open item.
RetainedTexts ==
    SortTexts(UniqueTexts(CandidateTexts(NodesOf(item.workflow.value)), << >>))

\* text ends with tail.
EndsWith(text, tail) ==
    Len(tail) <= Len(text) /\ SubSeq(text, Len(text) - Len(tail) + 1, Len(text)) = tail

\* text is a combined document of the candidates: it opens with the header,
\* lists every candidate with its number, label and source, and closes
\* with the first candidate as the primary prompt.
IsCombinedDocument(text, texts) ==
    /\ SubSeq(text, 1, Len(Chars("=== MULTIPLE PROMPTS FOUND ===\n\n")))
          = Chars("=== MULTIPLE PROMPTS FOUND ===\n\n")
    /\ \A i \in 1..Len(texts) :
          Includes(text, Chars(NumStr(i)) \o Chars(". ") \o texts[i].label \o Chars(" (")
                         \o texts[i].source \o Chars("):\n")
                         \o cleanPromptText(texts[i].text) \o Chars("\n\n"))
    /\ EndsWith(text, Chars("=== END OF PROMPTS ===\n\nPRIMARY PROMPT:\n")
                      \o cleanPromptText(texts[1].text))

\* C14 as stated: when mining runs on an empty or placeholder prompt and
\* retains one candidate, the prompt field holds that candidate's text
\* verbatim; when it retains several, the field holds the combined document.
C14_SoleCandidateVerbatim ==
    WorkflowWalked /\ ~PromptGuard(item.prompt) =>
        \A texts \in {RetainedTexts} :
            /\ Len(texts) = 1 => promptField = texts[1].text
            /\ Len(texts) > 1 => IsCombinedDocument(promptField, texts)

\* C14, amended: when mining runs on an empty or placeholder prompt and
\* retains one candidate, the prompt field holds that candidate's text as
\* cleaned by cleanPromptText, or keeps its value when the cleaned text is
\* empty; when it retains several, the field holds the combined document.
C14_SoleCandidateCleaned ==
    WorkflowWalked /\ ~PromptGuard(item.prompt) =>
        \A texts \in {RetainedTexts} :
            /\ Len(texts) = 1 =>
                  promptField = IF cleanPromptText(texts[1].text) # << >>
                                THEN cleanPromptText(texts[1].text) ELSE item.prompt
            /\ Len(texts) > 1 => IsCombinedDocument(promptField, texts)

\* A sole candidate whose cleaned text differs from it has been mined.
C14_Witness ==
    /\ WorkflowWalked
    /\ ~PromptGuard(item.prompt)
    /\ Len(RetainedTexts) = 1
    /\ promptField = cleanPromptText(RetainedTexts[1].text)
    /\ promptField # RetainedTexts[1].text
    /\ promptField # << >>

\* C16: mining never overwrites a manual edit. Whenever the modal is
\* opened on an item, a stored prompt that is not empty and is not the
\* placeholder is shown unchanged, and so is a stored model that is not
\* empty; this holds after any sequence of opening, editing, saving and
\* reopening, also for a prompt that contains the placeholder within it.
C16_MiningKeepsManualEdit ==
    modalPc = "open" =>
        /\ item.prompt # << >> /\ item.prompt # PlaceholderText => promptField = item.prompt
        /\ Trim(item.model) # << >> => modelField = item.model

\* The models of the nodes with each node's model counted once: the name of
\* a checkpoint or LoRA loader, the model files of any other loader.
ModelsCountedOnce(nodes) ==
    Concat([i \in 1..Len(nodes) |->
              IF LoaderNames(nodes[i], "CheckpointLoaderSimple", "Checkpoint", 1) # << >>
              THEN LoaderNames(nodes[i], "CheckpointLoaderSimple", "Checkpoint", 1)
              ELSE IF LoaderNames(nodes[i], "LoraLoader", "LoRA", 2) # << >>
              THEN LoaderNames(nodes[i], "LoraLoader", "LoRA", 2)
              ELSE OtherLoaderNames(nodes[i])])

\* C17: when the model field is empty and the workflow holds a single model
\* (one CheckpointLoaderSimple or one LoraLoader node naming a .safetensors
\* file), the field receives just the cleaned name, with no '+ N LoRA' or
\* '+ M additional model' suffix; with several loaders the summary counts
\* each node's model once.
C17_EachModelCountedOnce ==
    WorkflowWalked /\ ~PromptGuard(item.prompt) /\ ~ModelGuard(item.model) =>
        \A models \in {SortModels(ModelsCountedOnce(NodesOf(item.workflow.value)))} :
            /\ Len(models) = 1 => modelField = cleanModelName(models[1].name)
            /\ Len(models) > 1 =>
                  modelField = cleanModelName(models[1].name)
                     \o CountSuffix(Cardinality({i \in 2..Len(models) : models[i].type = "LoRA"}),
                                    "LoRA")
                     \o CountSuffix(Cardinality({i \in 2..Len(models) : models[i].type # "LoRA"}),
                                    "additional model")

(***************************************************************************)
(* Claims about the model-name cleaner                                     *)
(***************************************************************************)
\* C15: the cleaned name is trimmed, 'loras/SDXL/my_lora_v2.safetensors'
\* cleans to 'my lora v2', and the result never contains '/', '\' or '_'.
C15_CleanedNameHasNoSeparators ==
    namePc = "done" =>
        /\ nameOut = Trim(nameOut)
        /\ nameIn = Chars("loras/SDXL/my_lora_v2.safetensors") => nameOut = Chars("my lora v2")
        /\ \A i \in 1..Len(nameOut) : ~IsSlash(nameOut[i]) /\ nameOut[i] # "_"

\* The same for the names without a line break: restricted to them the
\* statement of C15 holds.
C15_NoSeparatorsOnOneLine ==
    namePc = "done" /\ (\A i \in 1..Len(nameIn) : ~IsLineTerminator(nameIn[i])) =>
        /\ nameOut = Trim(nameOut)
        /\ nameIn = Chars("loras/SDXL/my_lora_v2.safetensors") => nameOut = Chars("my lora v2")
        /\ \A i \in 1..Len(nameOut) : ~IsSlash(nameOut[i]) /\ nameOut[i] # "_"

(***************************************************************************)
(* Claims about failures of thumbnail generation                           *)
(***************************************************************************)
\* Item k of the batch is not skipped: an image without a thumbnail, or any
\* image when regeneration is forced.
Attempted(k) ==
    /\ maint.allMedia[k].mediaType = "image"
    /\ ~HasData(maint.allMedia[k].thumbnailData) \/ maint.force

\* The image of item k cannot be decoded, or its row cannot be updated.
FailsToStore(k) ==
    maint.allMedia[k].imageData.kind # "image" \/ rows[k].updateFails

\* C18: in a batch, each decode or store error of an item adds one to the
\* error counter, the items after it are still attempted (those that can be
\* generated and stored have their thumbnail in the table at the end), and
\* the batch returns its results: once the items are loaded it never throws.
C18_BatchIsolatesFailures ==
    /\ maintPc \in {"batch", "batchReturned"} =>
          /\ maint.errors =
                Cardinality({k \in 1..maint.i : Attempted(k) /\ FailsToStore(k)})
                + (IF maint.progress = "throws"
                   THEN Cardinality({k \in 1..maint.i : Attempted(k) /\ ~FailsToStore(k)})
                   ELSE 0)
          /\ \A k \in 1..maint.i :
                Attempted(k) /\ ~FailsToStore(k) =>
                    rows[k].thumbnail_data =
                        ThumbnailPromise(maint.allMedia[k].imageData,
                                         maint.allMedia[k].thumbnailPosition, 600, 400).value
    /\ maintPc = "batchReturned" =>
          /\ maint.i = Len(maint.allMedia)
          /\ maint.results.errors = maint.errors
          /\ maint.results.total = Len(maint.allMedia)
    /\ maintPc = "batchThrew" => maint.op = "none"

\* A batch has returned in which an item failed and a later item was
\* generated and stored.
C18_Witness ==
    /\ maintPc = "batchReturned"
    /\ \E k \in 1..maint.i, j \in 1..maint.i :
          /\ k < j
          /\ Attempted(k) /\ FailsToStore(k)
          /\ Attempted(j) /\ ~FailsToStore(j)
          /\ rows[j].thumbnail_data.kind = "thumb"
    /\ maint.results.errors >= 1
    /\ maint.results.processed >= 1

\* C19: when the image of the item cannot be decoded, the promise of
\* generateThumbnailWithPosition is rejected and carries no thumbnail, and
\* regenerateThumbnailForItem throws and leaves the table as it was; for a
\* video item it returns false and leaves the table as it was.
C19_FailedRegenerationKeepsRecord ==
    [][maintPc = "idle" /\ maint'.op = "regenerate" /\ maint'.itemId <= Len(rows) =>
          LET row == rows[maint'.itemId]
              promise == ThumbnailPromise(row.image_data, maint'.newPosition, 600, 400)
          IN  /\ row.media_type = "video" =>
                    maintPc' = "regenReturnedFalse" /\ rows' = rows
              /\ row.media_type = "image" /\ row.image_data.kind # "image" =>
                    /\ promise = [settled |-> "rejected"]
                    /\ maintPc' = "regenThrew"
                    /\ rows' = rows]_vars

\* A regeneration has thrown on an image that cannot be decoded and whose
\* row holds a thumbnail.
C19_Witness ==
    /\ maintPc = "regenThrew"
    /\ maint.itemId <= Len(rows)
    /\ rows[maint.itemId].media_type = "image"
    /\ rows[maint.itemId].image_data = CorruptData
    /\ rows[maint.itemId].thumbnail_data.kind = "thumb"
    /\ ~rows[maint.itemId].updateFails

(***************************************************************************)
(* Claims about repeated extraction                                        *)
(***************************************************************************)
\* C20: two calls of extractComfyUIInfo, or of extractChatGPTInfo, with the
\* same chunks return identical records, whatever the time of each call.
C20_SameRecordTwice ==
    twicePc = "twice" => firstOut = secondOut

\* The same for extractChatGPTInfo alone, which holds.
C20_ChatGPTSameRecordTwice ==
    twicePc = "twice" /\ twiceIn.parser = "chatgpt" => firstOut = secondOut

(***************************************************************************)
(* Claims about the stored thumbnail position                              *)
(***************************************************************************)
\* C21: the store keeps the thumbnail position as given, 0 included: after
\* regenerateThumbnailForItem(id, p) has succeeded, the item read back from
\* the table has the position p that produced its thumbnail.
C21_StoredPositionIsGiven ==
    maintPc = "regenReturnedTrue" =>
        convertSQLiteToExpected(maint.itemId, rows[maint.itemId]).thumbnailPosition
            = maint.newPosition

C27_CountedOnceWithoutThrowingCallback ==
    (maintPc = "batchReturned" /\ maint.progress # "throws") =>
        maint.results.processed + maint.results.skipped + maint.results.errors
            = maint.results.total

(***************************************************************************)
(* Claims about the order of the retained candidates                       *)
(***************************************************************************)
\* The candidates extractTextFromWorkflow collects from the open item,
\* before duplicates are removed.
CollectedTexts == CandidateTexts(NodesOf(item.workflow.value))

\* The best (lowest-numbered) priority among the candidates.
BestTier(candidates) ==
    CHOOSE p \in {candidates[i].priority : i \in DOMAIN candidates} :
        \A j \in DOMAIN candidates : p <= candidates[j].priority

\* No two of the texts are equal or contained in one another.
NoneContainsAnother(texts) ==
    \A i, j \in DOMAIN texts : i # j => ~Includes(texts[i].text, texts[j].text)

\* The texts are listed by priority ascending, then length descending.
ListedByTierThenLength(texts) ==
    \A i, j \in DOMAIN texts : i < j => ~TextBefore(texts[j], texts[i])

\* The combined document has been written to the prompt field of the open
\* item.
CombinedDocumentBuilt ==
    /\ WorkflowWalked
    /\ ~PromptGuard(item.prompt)
    /\ Len(RetainedTexts) > 1

\* C30: in the combined document no two retained candidates are equal or
\* substrings of one another, they are listed by priority tier ascending
\* then length descending, and the text restated as PRIMARY PROMPT has the
\* best tier among all the candidates collected from the workflow.
C30_PrimaryHasBestCollectedTier ==
    CombinedDocumentBuilt =>
        \A texts \in {RetainedTexts}, collected \in {CollectedTexts} :
            /\ NoneContainsAnother(texts)
            /\ ListedByTierThenLength(texts)
            /\ EndsWith(promptField, Chars("PRIMARY PROMPT:\n") \o cleanPromptText(texts[1].text))
            /\ texts[1].priority = BestTier(collected)

\* The same with the best tier taken among the retained candidates only.
C30_PrimaryHasBestRetainedTier ==
    CombinedDocumentBuilt =>
        \A texts \in {RetainedTexts} :
            /\ NoneContainsAnother(texts)
            /\ ListedByTierThenLength(texts)
            /\ EndsWith(promptField, Chars("PRIMARY PROMPT:\n") \o cleanPromptText(texts[1].text))
            /\ texts[1].priority = BestTier(texts)

(***************************************************************************)
(* Claims about the delete endpoint                                        *)
(***************************************************************************)
\* The path lies in the project directory: it is the directory or goes
\* through it.
InsideProject(resolvedPath) ==
    /\ Len(resolvedPath) >= Len(ProjectRoot)
    /\ SubSeq(resolvedPath, 1, Len(ProjectRoot)) = ProjectRoot

\* C29: every request whose path resolves outside the project directory,
\* a sibling directory whose name starts with the project directory's name
\* included, is answered with status 400 and leaves the files as they are.
C29_OutsidePathsRejected ==
    [][ (serverPc = "received" /\ ~InsideProject(ResolvedPath(delReq)))
            => (delRes'.status = 400 /\ disk' = disk) ]_vars

\* The same for the paths outside the project directory whose string does
\* not start with the string of the project directory.
C29_OtherOutsidePathsRejected ==
    [][ (/\ serverPc = "received"
         /\ ~InsideProject(ResolvedPath(delReq))
         /\ ~StartsWith(PathString(ResolvedPath(delReq)), PathString(ProjectRoot)))
            => (delRes'.status = 400 /\ disk' = disk) ]_vars

\* Every request inside the project directory passes the check.
C29_InsidePathsAccepted ==
    [][ (serverPc = "received" /\ InsideProject(ResolvedPath(delReq)))
            => delRes'.status # 400 ]_vars

(***************************************************************************)
(* Claims about the deletion of the item shown in the modal                *)
(***************************************************************************)
\* C23: deleteCurrentImage removes from the database exactly the item whose
\* deletion the user confirmed, whatever closeModal and openImageModal do
\* while the request to the server is pending: the database delete targets
\* the confirmed item, never null and never another item.
C23_DeleteTargetsConfirmedItem ==
    deletion.pc \in {"deleting", "done"} => deletion.target = deletion.confirmed

\* The same when the modal is left alone while the request is pending.
C23_UndisturbedDeleteTargetsConfirmedItem ==
    [][ (deletion.pc = "fetching" /\ deletion'.pc = "deleting"
         /\ currentImageId = deletion.confirmed)
            => deletion'.target = deletion.confirmed ]_vars

(***************************************************************************)
(* Claims about the modal with the mini-gallery                            *)
(***************************************************************************)
\* C24: Save Changes and Delete act on the item the modal displays: Save
\* writes the fields to the record of the displayed item, and Delete
\* deletes the displayed item, never an item of an earlier session.
C24_SaveAndDeleteActOnDisplayedItem ==
    /\ saved.target = saved.shown
    /\ deletion.pc \in {"noActive", "checking", "blocked", "declined", "fetching",
                        "deleting", "failed", "done"}
          => deletion.active = deletion.shown

\* Save Changes acts on the displayed item in a modal whose thumbnails
\* were not clicked, and Delete on the displayed item once a thumbnail was
\* clicked in this session.
C24_ActOnDisplayedItemByModule ==
    /\ [][ (saved' # saved /\ shownId = currentImageId) => saved'.target = saved'.shown ]_vars
    /\ [][ (deletion' # deletion
            /\ deletion.pc \notin {"checking", "fetching", "deleting"}
            /\ shownId = miniImageId)
              => deletion'.active = deletion'.shown ]_vars

\* The images of the gallery of the stored item id.
GalleryImagesOf(records, id) ==
    { img \in getMediaByGalleryId(records, records[id].galleryId) : img.mediaType = "image" }

\* The stored item id is the main image of a gallery that holds other
\* images.
MainImageWithOthers(records, id) ==
    /\ id \in DOMAIN records
    /\ records[id].galleryId > 0
    /\ records[id].mediaType = "image"
    /\ \A img \in GalleryImagesOf(records, id) : id <= img.id
    /\ Cardinality(GalleryImagesOf(records, id)) > 1

SearchesCompleted ==
    /\ searchLog.sent > 0
    /\ ~searchTimer
    /\ searchesInFlight = {}
    /\ searchLog.failures = 0

\* C28: once all pending search requests have completed, the gallery shows
\* the results for the most recently entered search term.
C28_LatestSearchShown ==
    SearchesCompleted => galleryShown = searchMedia(searchBox)

\* When the answer to the latest request arrives and no input is waiting
\* for its timeout, the gallery shows the results for the term in the box.
C28_AnswerToLatestSearchShown ==
    [][ \A request \in searchesInFlight \ searchesInFlight' :
            (request.n = searchLog.sent /\ ~searchTimer /\ searchLog' = searchLog)
                => galleryShown' = searchMedia(searchBox) ]_vars

(***************************************************************************)
(* Claims about the migration of the legacy store                          *)
(***************************************************************************)
\* The number of rows of the table that were migrated from the legacy item.
TimesMigrated(table, legacyId) ==
    Cardinality({ k \in DOMAIN table : table[k].legacy = legacyId })

\* C26: the legacy store is migrated at most once per legacy item: after
\* any number of initialisations the media table holds no legacy item
\* twice.
C26_NoLegacyItemTwice ==
    isInitialized => \A legacyId \in dexieItems : TimesMigrated(sqliteDb, legacyId) <= 1

\* The same after the first initialisation.
C26_NoLegacyItemTwiceAtFirstInit ==
    (isInitialized /\ initCount = 1) =>
        \A legacyId \in dexieItems : TimesMigrated(sqliteDb, legacyId) <= 1

(***************************************************************************)
(* Claims about export and import                                          *)
(***************************************************************************)
\* The fields of a record that a backup has to carry.
BackedUpColumns ==
    { "title", "prompt", "model", "tags", "notes", "media_type",
      "thumbnail_position_x", "thumbnail_position_y", "metadata_json", "server_path" }

\* The text fields the export and the insert name alike.
SharedColumns == { "title", "prompt", "model", "tags", "notes" }

\* C22: export followed by import into an empty store is a faithful round
\* trip: one record per exported item, with the same title, prompt, model,
\* tags, notes, media type, thumbnail position, metadata and server path.
C22_ImportRecreatesExport ==
    backupPc = "imported" =>
        /\ Len(targetMedia) = Len(sourceMedia)
        /\ \A i \in DOMAIN targetMedia :
              \A column \in BackedUpColumns : targetMedia[i][column] = sourceMedia[i][column]

\* Every record the import does create carries the title, prompt, model,
\* tags and notes of an exported item, in the order of the export.
C22_CreatedRecordsKeepTexts ==
    backupPc = "imported" =>
        /\ Len(targetMedia) <= Len(sourceMedia)
        /\ Len(importResults) = Len(sourceMedia)
        /\ \A i \in DOMAIN targetMedia :
              \E k \in DOMAIN sourceMedia :
                 \A column \in SharedColumns : targetMedia[i][column] = sourceMedia[k][column]

=============================================================================
